---- MODULE Spec2Model ----
(***************************************************************************)
(* LSP client harness: the transport (lsp_types/session.py, LSPSession),  *)
(* the Pyrefly session (lsp_types/pyrefly/session.py) and the process     *)
(* pool the session borrows its transport from.                           *)
(***************************************************************************)
EXTENDS Integers, Sequences, FiniteSets, TLC

(* ---------------- bounds ---------------- *)
NumTransports == 2
NumSessions == 2
MaxRequests == 3
MaxVersion == 3
MaxDiagCalls == 2
MaxPoolSize == 1
MaxIdleTime == 1
MaxTime == 2
MaxFaults == 1
MaxFaultyRequests == 2

Transports == 1..NumTransports
Sessions == 1..NumSessions
NoProc == 0

(* ---------------- wire messages ---------------- *)
NoId == 0
NoVersion == 0
NoCall == 0

(* session.py:268 make_request *)
make_request(method, request_id, params) ==
    [method |-> method, id |-> request_id, body |-> "params", val |-> 0,
     version |-> params.version, sess |-> params.sess]

(* session.py:264 make_notification *)
make_notification(method, params) ==
    [method |-> method, id |-> NoId, body |-> "params", val |-> 0,
     version |-> params.version, sess |-> params.sess]

(* params of a message that is not about a document version *)
NoParams == [version |-> NoVersion, sess |-> 0]

(* params that carry a document version; sess records which session wrote it *)
DocParams(v, s) == [version |-> v, sess |-> s]

(* a response as the server writes it (mock_lsp_server.py write_message) *)
Response(request_id, body, val) ==
    [method |-> "", id |-> request_id, body |-> body, val |-> val,
     version |-> NoVersion, sess |-> 0]

(* ---------------- state ---------------- *)
VARIABLES
    procs,    \* procs[t]: the fields of transport object t (LSPSession)
    server,   \* server[t]: the subprocess of transport t and its pipes
    sessions, \* sessions[s]: the fields of PyreflySession s and where its caller is
    pool,     \* the shared LSPProcessPool
    now       \* the monotonic clock the pool stamps releases with

vars == <<procs, server, sessions, pool, now>>
tvars == <<procs, server>>
pvars == <<sessions, pool, now>>

(* LSPSession.__init__, session.py:64-75 *)
NewProc ==
    [ exists |-> FALSE,
      process |-> "none",
      notification_queue |-> <<>>,
      pending_requests |-> <<>>,
      request_id_gen |-> 1,
      tasks |-> <<>>,
      reader |-> "none",
      shutdown |-> FALSE,
      calls |-> <<>>,
      waiters |-> <<>>,
      stop |-> "idle",
      stopCall |-> NoCall ]

NewServer ==
    [ up |-> FALSE, stdin |-> <<>>, stdout |-> <<>>, answered |-> {}, pos |-> 0, written |-> 0,
      wire |-> <<>>,
      root |-> "", faults |-> <<>> ]

(* ---------------- helpers ---------------- *)
SetProc(t, r) == procs' = [procs EXCEPT ![t] = r]
SetServer(t, r) == server' = [server EXCEPT ![t] = r]

(* dict.pop(request_id, None), session.py:159 *)
Pop(d, i) == [j \in (DOMAIN d) \ {i} |-> d[j]]

(* dict[request_id] = future, session.py:151 *)
Put(d, i, k) == [j \in (DOMAIN d) \cup {i} |-> IF j = i THEN k ELSE d[j]]

(* itertools.count(1): next() yields the counter and advances it, session.py:69,148 *)
NextId(gen) == gen
Advance_wrap(gen) == IF gen >= 2 THEN 1 ELSE gen + 1
Advance(gen) == gen + 1

(* task.cancel() on every task of _tasks, session.py:116-117: a writer that *)
(* has not run yet never writes; finished tasks are unaffected              *)
CancelTasks(ts) ==
    [i \in DOMAIN ts |->
        IF ts[i].st = "scheduled" THEN [ts[i] EXCEPT !.st = "cancelled"] ELSE ts[i]]

(* a cancelled reader catches CancelledError and returns (session.py:241-242) *)
CancelReader(r) == IF r = "running" THEN "done" ELSE r

(* stream.writelines of _send_payload, session.py:183-189: the two header *)
(* lines and the body of one message go into the transport's buffer in    *)
(* one call, with no suspension between them.  wire keeps the chunks in   *)
(* the order the server's stdin receives them, each with the number of    *)
(* the message it belongs to.                                             *)
Chunks(n) ==
    << [frame |-> n, part |-> "Content-Length"],
       [frame |-> n, part |-> "Content-Type"],
       [frame |-> n, part |-> "body"] >>

writelines_unbuffered(srv, msg) ==
    LET n == Len(srv.stdin) + 1
        c == Chunks(n)
    IN  [srv EXCEPT !.stdin = Append(@, msg),
                    !.wire = IF @ = <<>> THEN c
                             ELSE SubSeq(@, 1, Len(@) - 1) \o <<c[1], c[2]>>
                                    \o <<@[Len(@)]>> \o <<c[3]>>]

writelines(srv, msg) ==
    [srv EXCEPT !.stdin = Append(@, msg), !.wire = @ \o Chunks(Len(srv.stdin) + 1)]

(* the stream accepts a write only while the subprocess has its stdin open *)
Writable(t) == server[t].up

(* ---------------- LSPSession.start, session.py:84-103 ---------------- *)
start(t) ==
    /\ procs[t].exists
    /\ procs[t].process = "none"
    /\ procs[t].reader = "none"
    /\ SetProc(t, [procs[t] EXCEPT !.process = "running", !.reader = "running"])
    /\ SetServer(t, [server[t] EXCEPT !.up = TRUE])
    /\ UNCHANGED pvars

(* ---------------- LSPSession._send_request, session.py:143-159 ------- *)
(* The part up to the first suspension: allocate the id, register the    *)
(* future, write the frame.  A failed write raises before the try block, *)
(* so the slot stays registered.                                         *)
SendRequestOn(p, srv, method, up) ==
    LET request_id == NextId(p.request_id_gen)
        k == Len(p.calls) + 1
        call == [ id |-> request_id, method |-> method, fut |-> "pending",
                  val |-> 0, set |-> 0, st |-> IF up THEN "awaiting" ELSE "raised" ]
    IN  [ p |-> [p EXCEPT !.request_id_gen = Advance(@),
                          !.pending_requests = Put(@, request_id, k),
                          !.calls = Append(@, call)],
          srv |-> IF up
                  THEN writelines(srv, make_request(method, request_id, NoParams))
                  ELSE srv,
          k |-> k ]

_send_request(t, method) ==
    /\ procs[t].process = "running"
    /\ Len(procs[t].calls) < MaxRequests
    /\ LET r == SendRequestOn(procs[t], server[t], method, Writable(t))
       IN  /\ SetProc(t, r.p)
           /\ SetServer(t, r.srv)
    /\ UNCHANGED pvars

(* A future that is done or cancelled wakes its awaiter in the next      *)
(* iteration of the event loop.  Before the awaiter has run the reader   *)
(* reads only what had arrived when the wakeup was scheduled; a frame    *)
(* that arrives later is read after the awaiter, which is the same as a  *)
(* frame the server writes after it.  So the server's writes are taken   *)
(* while no wakeup is pending.                                           *)
WakeupPending(p) ==
    \E k \in DOMAIN p.calls : p.calls[k].st = "awaiting" /\ p.calls[k].fut # "pending"

(* the awaiter resumes once its future is done or cancelled: finally    *)
(* pops the slot, session.py:156-159                                     *)
ResumeCall(p, k) ==
    [p EXCEPT !.pending_requests = Pop(@, p.calls[k].id),
              !.calls[k].st = IF p.calls[k].fut = "result" THEN "returned"
                              ELSE IF p.calls[k].fut = "cancelled" THEN "cancelled"
                              ELSE "raised"]

Resume(t, k) ==
    /\ k \in DOMAIN procs[t].calls
    /\ k # procs[t].stopCall
    /\ procs[t].calls[k].st = "awaiting"
    /\ procs[t].calls[k].fut \in {"result", "error", "invalid", "cancelled"}
    /\ SetProc(t, ResumeCall(procs[t], k))
    /\ UNCHANGED <<server, pvars>>

(* the awaiter is cancelled (asyncio.wait_for deadline): the future it   *)
(* awaits is cancelled at once; the slot stays registered until the      *)
(* event loop resumes the awaiter, whose finally pops it                 *)
(* (session.py:156-159).  Nothing is written to the server.              *)
CancelCall_notify(p, srv, k) ==
    [ p |-> [p EXCEPT !.calls[k].fut = "cancelled"],
      srv |-> [srv EXCEPT !.stdin = Append(@, [method |-> "$/cancelRequest", id |-> NoId,
                                                body |-> "params", val |-> p.calls[k].id,
                                                version |-> NoVersion, sess |-> 0])] ]

CancelCall(p, srv, k) ==
    [ p |-> [p EXCEPT !.calls[k].fut = "cancelled"], srv |-> srv ]

CancelAwaiter(t, k) ==
    /\ k \in DOMAIN procs[t].calls
    /\ k # procs[t].stopCall
    /\ procs[t].calls[k].st = "awaiting"
    /\ procs[t].calls[k].fut = "pending"
    /\ SetProc(t, CancelCall(procs[t], server[t], k).p)
    /\ SetServer(t, CancelCall(procs[t], server[t], k).srv)
    /\ UNCHANGED pvars

(* ---------------- LSPSession._send_notification, session.py:161-173 -- *)
(* Without a process the notification is dropped with a warning; else a  *)
(* writer task is created and appended to _tasks.                        *)
SendNotificationOn(p, payload, owner) ==
    IF p.process # "running"
    THEN p
    ELSE [p EXCEPT !.tasks = Append(@, [msg |-> payload, st |-> "scheduled", owner |-> owner])]

(* ---------------- LSPSession._send_payload, session.py:175-190 ------- *)
(* The event loop starts tasks in creation order; the writer writes the  *)
(* whole frame with one writelines call and then drains.                 *)
FirstScheduled(ts) ==
    IF \E i \in DOMAIN ts : ts[i].st = "scheduled"
    THEN CHOOSE i \in DOMAIN ts :
            /\ ts[i].st = "scheduled"
            /\ \A j \in DOMAIN ts : ts[j].st = "scheduled" => i <= j
    ELSE 0

_send_payload(t) ==
    LET i == FirstScheduled(procs[t].tasks)
    IN  /\ i # 0
        /\ IF Writable(t)
           THEN /\ SetProc(t, [procs[t] EXCEPT !.tasks[i].st = "done"])
                /\ SetServer(t, writelines(server[t], procs[t].tasks[i].msg))
           ELSE /\ SetProc(t, [procs[t] EXCEPT !.tasks[i].st = "failed"])
                /\ UNCHANGED server
        /\ UNCHANGED pvars

(* ---------------- one-shot notification waiters ---------------------- *)
(* on_<notification>(timeout) of the generated facade forwards to         *)
(* on_notification(method, timeout) of the transport, which registers a   *)
(* one-shot waiter (generate_notifications.py:60-84).                     *)
NoDeadline == 0

(* the oldest message of a method in the generic queue, 0 when none *)
FirstQueued(q, method) ==
    IF \E i \in DOMAIN q : q[i].method = method
    THEN CHOOSE i \in DOMAIN q :
            /\ q[i].method = method
            /\ \A j \in DOMAIN q : q[j].method = method => i <= j
    ELSE 0

RegisterWaiter_replay(p, method, deadline, s) ==
    LET i == FirstQueued(p.notification_queue, method)
    IN  IF i = 0
        THEN [p EXCEPT !.waiters = Append(@, [method |-> method, st |-> "waiting",
                                         deadline |-> deadline, val |-> 0, set |-> 0,
                                         version |-> NoVersion, doc |-> 0, sess |-> s])]
        ELSE [p EXCEPT !.waiters = Append(@, [method |-> method, st |-> "done",
                                         deadline |-> deadline,
                                         val |-> p.notification_queue[i].val, set |-> 1,
                                         version |-> p.notification_queue[i].version,
                                         doc |-> p.notification_queue[i].sess, sess |-> s]),
                       !.notification_queue = SubSeq(@, 1, i - 1) \o SubSeq(@, i + 1, Len(@))]

RegisterWaiter(p, method, deadline, s) ==
    [p EXCEPT !.waiters = Append(@, [method |-> method, st |-> "waiting",
                                     deadline |-> deadline, val |-> 0, set |-> 0,
                                     version |-> NoVersion, doc |-> 0, sess |-> s])]

(* timeout=None: the waiter has no deadline *)
OnNotification(p, method, s) == RegisterWaiter(p, method, NoDeadline, s)

FirstWaiting_newest(ws, method) ==
    IF \E i \in DOMAIN ws : ws[i].st = "waiting" /\ ws[i].method = method
    THEN CHOOSE i \in DOMAIN ws :
            /\ ws[i].st = "waiting" /\ ws[i].method = method
            /\ \A j \in DOMAIN ws : (ws[j].st = "waiting" /\ ws[j].method = method) => j <= i
    ELSE 0

FirstWaiting(ws, method) ==
    IF \E i \in DOMAIN ws : ws[i].st = "waiting" /\ ws[i].method = method
    THEN CHOOSE i \in DOMAIN ws :
            /\ ws[i].st = "waiting" /\ ws[i].method = method
            /\ \A j \in DOMAIN ws : (ws[j].st = "waiting" /\ ws[j].method = method) => i <= j
    ELSE 0

FirstOfMethod(ws, method) ==
    IF \E i \in DOMAIN ws : ws[i].method = method
    THEN CHOOSE i \in DOMAIN ws :
            /\ ws[i].method = method
            /\ \A j \in DOMAIN ws : ws[j].method = method => i <= j
    ELSE 0

Route_again(p, payload) ==
    LET i == FirstOfMethod(p.waiters, payload.method)
    IN  IF payload.method # "" /\ i # 0
        THEN [p EXCEPT !.waiters[i].st = "done",
                       !.waiters[i].val = payload.val,
                       !.waiters[i].set = @ + 1,
                       !.waiters[i].version = payload.version,
                       !.waiters[i].doc = payload.sess,
                       !.notification_queue = SubSeq(@, 1, Len(@) - 1)]
        ELSE p

(* an arriving notification completes the oldest waiter of its method    *)
(* with its params and removes it; without a waiter it stays in the      *)
(* generic queue                                                         *)
Route(p, payload) ==
    LET i == FirstWaiting(p.waiters, payload.method)
    IN  IF payload.method # "" /\ i # 0
        THEN [p EXCEPT !.waiters[i].st = "done",
                       !.waiters[i].val = payload.val,
                       !.waiters[i].set = @ + 1,
                       !.waiters[i].version = payload.version,
                       !.waiters[i].doc = payload.sess,
                       !.notification_queue = SubSeq(@, 1, Len(@) - 1)]
        ELSE p

(* the deadline of a waiter passes before a notification of its method   *)
(* was read: the waiter fails with Timeout and is removed                *)
ExpireWaiter(p, i) == [p EXCEPT !.waiters[i].st = "timeout"]

(* ---------------- LSPSession._read_stdout, session.py:192-244 -------- *)
(* One iteration of the loop on one framed message.                      *)
OldestPending(p) ==
    IF \E k \in DOMAIN p.calls : p.calls[k].fut = "pending"
    THEN CHOOSE k \in DOMAIN p.calls :
            /\ p.calls[k].fut = "pending"
            /\ \A j \in DOMAIN p.calls : p.calls[j].fut = "pending" => k <= j
    ELSE NoCall

Dispatch_oldest(p, payload) ==
    IF payload.method # ""
    THEN [p EXCEPT !.notification_queue = Append(@, payload)]
    ELSE IF payload.id # NoId /\ OldestPending(p) # NoCall
    THEN [p EXCEPT !.calls[OldestPending(p)].fut =
                       IF payload.body = "result" THEN "result"
                       ELSE IF payload.body = "error" THEN "error"
                       ELSE "invalid",
                   !.calls[OldestPending(p)].val = payload.val]
    ELSE p

Dispatch_error_ends_reader(p, payload) ==
    IF payload.method # ""
    THEN [p EXCEPT !.notification_queue = Append(@, payload)]
    ELSE IF payload.id # NoId
    THEN IF payload.id \in DOMAIN p.pending_requests
         THEN LET k == p.pending_requests[payload.id]
              IN  [p EXCEPT !.calls[k].fut =
                                IF payload.body = "result" THEN "result"
                                ELSE IF payload.body = "error" THEN "error"
                                ELSE "invalid",
                            !.calls[k].val = payload.val,
                            !.reader = IF payload.body = "error" THEN "done" ELSE @]
         ELSE p
    ELSE p

Dispatch_overwrite(p, payload) ==
    IF payload.method # ""
    THEN [p EXCEPT !.notification_queue = Append(@, payload)]
    ELSE IF payload.id # NoId
    THEN IF payload.id \in DOMAIN p.pending_requests
         THEN LET k == p.pending_requests[payload.id]
              IN  [p EXCEPT !.calls[k].fut =
                                IF payload.body = "result" THEN "result"
                                ELSE IF payload.body = "error" THEN "error"
                                ELSE "invalid",
                            !.calls[k].val = payload.val,
                            !.calls[k].set = @ + 1]
         ELSE p
    ELSE p

(* A message with a method goes to the notification queue.  A response   *)
(* is looked up by its id with dict.get; the slot is still registered    *)
(* while its awaiter has not resumed, and set_result or set_exception on *)
(* a future that is done or cancelled raises InvalidStateError, which    *)
(* leaves the loop through except Exception (session.py:241-244).        *)
Dispatch(p, payload) ==
    IF payload.method # ""
    THEN [p EXCEPT !.notification_queue = Append(@, payload)]
    ELSE IF payload.id # NoId
    THEN IF payload.id \in DOMAIN p.pending_requests
         THEN LET k == p.pending_requests[payload.id]
              IN  IF p.calls[k].fut = "pending"
                  THEN [p EXCEPT !.calls[k].fut =
                                     IF payload.body = "result" THEN "result"
                                     ELSE IF payload.body = "error" THEN "error"
                                     ELSE "invalid",
                                 !.calls[k].val = payload.val,
                                 !.calls[k].set = @ + 1]
                  ELSE [p EXCEPT !.reader = "failed"]
         ELSE p
    ELSE p

(* One frame: a body that is no JSON, or a Content-Length that int() or  *)
(* readexactly() refuses, raises and ends the loop (session.py:207-217,  *)
(* 243-244); header lines without Content-Length are skipped             *)
(* (session.py:204-210), and so is what follows them.                    *)
ReadFrame(p, frame) ==
    IF frame.body = "malformed"
    THEN [p EXCEPT !.reader = "failed"]
    ELSE IF frame.body = "no_length"
    THEN p
    ELSE Route(Dispatch(p, frame), frame)

_read_stdout(t) ==
    /\ procs[t].reader = "running"
    /\ procs[t].process = "running"
    /\ server[t].stdout # <<>>
    /\ SetProc(t, ReadFrame(procs[t], Head(server[t].stdout)))
    /\ SetServer(t, [server[t] EXCEPT !.stdout = Tail(@)])
    /\ UNCHANGED pvars

(* at end of file with nothing left to read the loop condition fails and *)
(* the reader returns (session.py:194-198); nothing else is touched.     *)
(* Only the reader itself looks at whether it has ended, so the          *)
(* specifications about sessions and the pool leave this step out.       *)
ReaderAtEOF(p) == [p EXCEPT !.reader = "done"]

_read_stdout_eof(t) ==
    /\ procs[t].reader = "running"
    /\ procs[t].process = "running"
    /\ server[t].stdout = <<>>
    /\ ~server[t].up
    /\ SetProc(t, ReaderAtEOF(procs[t]))
    /\ UNCHANGED <<server, pvars>>

(* ---------------- LSPSession.stop, session.py:105-129 ---------------- *)
(* stop() up to its first suspension, on transport fields p with pipes srv *)
BeginStop(p, srv, up) ==
    IF p.shutdown
    THEN [ p |-> [p EXCEPT !.tasks = CancelTasks(@),
                           !.reader = CancelReader(@),
                           !.stop = IF p.process = "running" THEN "await_process" ELSE "done"],
           srv |-> srv ]
    ELSE IF p.process # "running"
    THEN [ p |-> [p EXCEPT !.stop = "raised"], srv |-> srv ]
    ELSE LET r == SendRequestOn(p, srv, "shutdown", up)
         IN  IF up
             THEN [ p |-> [r.p EXCEPT !.stop = "await_shutdown", !.stopCall = r.k],
                    srv |-> r.srv ]
             ELSE [ p |-> [r.p EXCEPT !.shutdown = TRUE,
                                      !.tasks = CancelTasks(@),
                                      !.reader = CancelReader(@),
                                      !.stop = "await_process"],
                    srv |-> srv ]

StopBegin(t) ==
    /\ procs[t].exists
    /\ procs[t].stop = "idle"
    /\ procs[t].reader # "none"
    /\ SetProc(t, BeginStop(procs[t], server[t], Writable(t)).p)
    /\ SetServer(t, BeginStop(procs[t], server[t], Writable(t)).srv)

(* the shutdown request is answered: pop the slot; an error response is  *)
(* not a ConnectionResetError and leaves stop(); else notify.exit()      *)
StopExit(t) ==
    LET k == procs[t].stopCall
        p == ResumeCall(procs[t], k)
    IN  /\ procs[t].stop = "await_shutdown"
        /\ procs[t].calls[k].fut \in {"result", "error", "invalid"}
        /\ IF procs[t].calls[k].fut = "result"
           THEN SetProc(t, [SendNotificationOn(p, make_notification("exit", NoParams), "stop")
                               EXCEPT !.stop = "await_exit"])
           ELSE SetProc(t, [p EXCEPT !.stop = "raised"])
        /\ UNCHANGED <<server, pvars>>

StopCancel_early(t) ==
    /\ procs[t].stop = "await_exit"
    /\ SetProc(t, [procs[t] EXCEPT !.shutdown = TRUE,
                                   !.tasks = CancelTasks(@),
                                   !.reader = CancelReader(@),
                                   !.stop = "await_process"])
    /\ UNCHANGED <<server, pvars>>

(* the exit writer finished (or failed with a connection reset, which is *)
(* swallowed): set _shutdown, cancel every task, wait for the process    *)
StopCancel(t) ==
    /\ procs[t].stop = "await_exit"
    /\ \A i \in DOMAIN procs[t].tasks :
          procs[t].tasks[i].owner = "stop" => procs[t].tasks[i].st \in {"done", "failed"}
    /\ SetProc(t, [procs[t] EXCEPT !.shutdown = TRUE,
                                   !.tasks = CancelTasks(@),
                                   !.reader = CancelReader(@),
                                   !.stop = "await_process"])
    /\ UNCHANGED <<server, pvars>>

StopJoin_no_deadline(t) ==
    /\ procs[t].stop = "await_process"
    /\ ~server[t].up
    /\ SetProc(t, [procs[t] EXCEPT !.process = "none", !.stop = "done"])
    /\ UNCHANGED <<server, pvars>>

(* process.wait() returned, or the 5 s deadline passed and the process   *)
(* was killed; self.process = None                                       *)
StopJoin(t) ==
    /\ procs[t].stop = "await_process"
    /\ SetProc(t, [procs[t] EXCEPT !.process = "none", !.stop = "done"])
    /\ SetServer(t, [server[t] EXCEPT !.up = FALSE])
    /\ UNCHANGED pvars

(* stop() called on the transport by its owner *)
stop(t) == StopBegin(t) /\ UNCHANGED pvars

(* ---------------- the language server (environment) ------------------ *)
(* The server answers a request it has received, in any order, with a    *)
(* result that echoes the request id, or with an error.                  *)
RequestsOnWire(t) ==
    {server[t].stdin[i].id : i \in {j \in DOMAIN server[t].stdin : server[t].stdin[j].id # NoId}}

ServerRespond(t, i, body) ==
    /\ server[t].up
    /\ ~WakeupPending(procs[t])
    /\ i \in RequestsOnWire(t)
    /\ i \notin server[t].answered
    /\ SetServer(t, [server[t] EXCEPT !.answered = @ \cup {i},
                                      !.stdout = Append(@, Response(i, body, i))])
    /\ UNCHANGED <<procs, pvars>>

(* the server reads the exit notification and exits *)
ServerExit(t) ==
    /\ server[t].up
    /\ \E j \in DOMAIN server[t].stdin : server[t].stdin[j].method = "exit"
    /\ SetServer(t, [server[t] EXCEPT !.up = FALSE])
    /\ UNCHANGED <<procs, pvars>>

(* ---------------- PyreflySession.__init__, pyrefly/session.py:122-133 *)
InitialVersion_zero == 1 - 1
InitialVersion == 1

(* no file at the document uri (base_path/new.py) *)
NoFile == 0

(* a backend that advertises no semantic-token legend *)
NoLegend == [tokenTypes |-> <<>>, tokenModifiers |-> <<>>]

NewSession ==
    [ pc |-> "new", process |-> NoProc, pool |-> "none", key |-> "",
      document_version |-> InitialVersion, task |-> 0, waiter |-> 0,
      ret |-> NoVersion, updates |-> 0, returned |-> <<>>,
      diag |-> NoVersion, diag_doc |-> 0, diag_at |-> NoVersion, diag_calls |-> 0,
      backend_legend |-> NoLegend, raw_tokens |-> <<>>, tokens |-> <<>>,
      normalized |-> FALSE, on_disk |-> FALSE, file |-> NoFile,
      again |-> FALSE ]

(* ---------------- LSPProcessPool ------------------------------------- *)
(* available: the idle entries in release order, each with its key and   *)
(* release stamp; active: the entries lent to sessions; lock: the        *)
(* acquire that is building a pooled transport through the factory;      *)
(* stopping: the dropped transports the pool still has to shut down;     *)
(* cleaned: the transports cleanup() dropped.                            *)
NewPool(max_size, max_idle_time) ==
    [ max_size |-> max_size, max_idle_time |-> max_idle_time,
      available |-> <<>>, active |-> {}, lock |-> 0, sweeping |-> TRUE,
      stopping |-> <<>>, cleaned |-> {} ]

Keys == {"/w1", "/w2"}

current_size(pl) == Len(pl.available) + Cardinality(pl.active)

available_count(pl) == Len(pl.available)

AvailableProcs(pl) == {pl.available[i].proc : i \in DOMAIN pl.available}

ActiveProcs(pl) == {e.proc : e \in pl.active}

RemoveAt(seq, i) == SubSeq(seq, 1, i - 1) \o SubSeq(seq, i + 1, Len(seq))

(* the oldest idle entry of the key, 0 when there is none *)
IdleMatch_anykey(pl, key) == IF pl.available # <<>> THEN 1 ELSE 0
IdleMatch(pl, key) ==
    IF \E i \in DOMAIN pl.available : pl.available[i].key = key
    THEN CHOOSE i \in DOMAIN pl.available :
            /\ pl.available[i].key = key
            /\ \A j \in DOMAIN pl.available : pl.available[j].key = key => i <= j
    ELSE 0

(* acquire(factory, key) up to the factory call: an idle entry of the key *)
(* is taken and marked active; else below max_size a pooled transport is  *)
(* built; else a non-pooled one                                           *)
Acquire_grow(pl, key, s) ==
    LET i == IdleMatch(pl, key)
    IN  IF i # 0
        THEN [ how |-> "idle", proc |-> pl.available[i].proc,
               pool |-> [pl EXCEPT !.available = RemoveAt(@, i),
                                   !.active = @ \cup {[proc |-> pl.available[i].proc, key |-> key]}] ]
        ELSE [ how |-> "build", proc |-> NoProc, pool |-> [pl EXCEPT !.lock = s] ]
Acquire(pl, key, s) ==
    LET i == IdleMatch(pl, key)
    IN  IF i # 0
        THEN [ how |-> "idle", proc |-> pl.available[i].proc,
               pool |-> [pl EXCEPT !.available = RemoveAt(@, i),
                                   !.active = @ \cup {[proc |-> pl.available[i].proc, key |-> key]}] ]
        ELSE IF current_size(pl) < pl.max_size
        THEN [ how |-> "build", proc |-> NoProc, pool |-> [pl EXCEPT !.lock = s] ]
        ELSE [ how |-> "nonpooled", proc |-> NoProc, pool |-> pl ]

(* the factory of a pooled build returned transport t: mark it active *)
Built(pl, t, key) ==
    [pl EXCEPT !.active = @ \cup {[proc |-> t, key |-> key]}, !.lock = 0]

(* release(transport): an entry of the pool is marked available and      *)
(* stamped; a non-pooled transport (or max_size = 0) is shut down         *)
Release_keep(pl, t, time) ==
    IF pl.max_size > 0 /\ t \in ActiveProcs(pl)
    THEN LET e == CHOOSE e \in pl.active : e.proc = t
         IN  [ pooled |-> TRUE,
               pool |-> [pl EXCEPT !.available = Append(@, [proc |-> t, key |-> e.key,
                                                           last_released_at |-> time])] ]
    ELSE [ pooled |-> FALSE, pool |-> pl ]
Release(pl, t, time) ==
    IF pl.max_size > 0 /\ t \in ActiveProcs(pl)
    THEN LET e == CHOOSE e \in pl.active : e.proc = t
         IN  [ pooled |-> TRUE,
               pool |-> [pl EXCEPT !.active = @ \ {e},
                                   !.available = Append(@, [proc |-> t, key |-> e.key,
                                                           last_released_at |-> time])] ]
    ELSE [ pooled |-> FALSE, pool |-> pl ]

(* the available entries whose idle time exceeds max_idle_time *)
Expired_eager(pl, time) ==
    {pl.available[i].proc : i \in {j \in DOMAIN pl.available :
                                     time - pl.available[j].last_released_at >= pl.max_idle_time}}
Expired(pl, time) ==
    {pl.available[i].proc : i \in {j \in DOMAIN pl.available :
                                     time - pl.available[j].last_released_at > pl.max_idle_time}}

(* the transports of set ts in ascending order *)
InOrder(ts) == SelectSeq([t \in 1..NumTransports |-> t], LAMBDA t : t \in ts)

(* the sweep drops the expired entries and shuts their transports down,  *)
(* one after the other                                                   *)
Sweep(pl, time) ==
    [pl EXCEPT !.available = SelectSeq(@, LAMBDA e : e.proc \notin Expired(pl, time)),
               !.stopping = @ \o InOrder(Expired(pl, time))]

(* cleanup() drops every entry, shuts the transports down one after the  *)
(* other and cancels the sweep task                                      *)
Cleanup_idle_only(pl) ==
    [pl EXCEPT !.available = <<>>, !.sweeping = FALSE,
               !.cleaned = @ \cup AvailableProcs(pl),
               !.stopping = @ \o InOrder(AvailableProcs(pl)
                                           \ {pl.stopping[i] : i \in DOMAIN pl.stopping})]
Cleanup(pl) ==
    [pl EXCEPT !.available = <<>>, !.active = {}, !.sweeping = FALSE,
               !.cleaned = @ \cup AvailableProcs(pl) \cup ActiveProcs(pl),
               !.stopping = @ \o InOrder((AvailableProcs(pl) \cup ActiveProcs(pl))
                                           \ {pl.stopping[i] : i \in DOMAIN pl.stopping})]

(* ---------------- create_lsp_process, pyrefly/session.py:50-102 ------ *)
(* LSPProcess(proc_info); start(); send.initialize(...) answered by the  *)
(* server; notify.initialized({}).  The transport is known to nobody     *)
(* else until the factory returns it.                                    *)
FactoryRequest ==
    SendRequestOn([NewProc EXCEPT !.exists = TRUE, !.process = "running", !.reader = "running"],
                  [NewServer EXCEPT !.up = TRUE], "initialize", TRUE)

InitializedProc ==
    LET r == FactoryRequest
        rid == r.p.calls[r.k].id
        answered == ResumeCall(Dispatch(r.p, Response(rid, "result", rid)), r.k)
        notified == SendNotificationOn(answered, make_notification("initialized", NoParams), "factory")
    IN  [notified EXCEPT !.tasks[Len(notified.tasks)].st = "done"]

InitializedServer ==
    LET r == FactoryRequest
    IN  [writelines(r.srv, make_notification("initialized", NoParams))
            EXCEPT !.answered = {r.p.calls[r.k].id}]

(* "rootPath": base_path_str of the initialize params: the workspace the *)
(* server is started for                                                 *)
RootPath_fixed(key) == "/w1"
RootPath(key) == key

FreshProc ==
    IF \E t \in Transports : ~procs[t].exists
    THEN CHOOSE t \in Transports : ~procs[t].exists /\ \A u \in Transports : ~procs[u].exists => t <= u
    ELSE NoProc

(* ---------------- PyreflySession.create, pyrefly/session.py:104-120 -- *)
(* After acquire returned: cls(lsp_process, pool=pool), then the         *)
(* didChangeConfiguration notification is scheduled and awaited.         *)
Configure(sess, p, t, s) ==
    [ sess |-> [sess EXCEPT !.process = t, !.document_version = InitialVersion,
                            !.pool = "set",
                            !.pc = "await_config",
                            !.task = IF p.process = "running" THEN Len(p.tasks) + 1 ELSE 0],
      p |-> SendNotificationOn(p, make_notification("workspace/didChangeConfiguration", NoParams), "session") ]

(* the task a session awaits has finished; a dropped notification (task 0) *)
(* is the finished sleep(0) task                                          *)
TaskState(s) ==
    LET t == sessions[s].process
    IN  IF sessions[s].task = 0 THEN "done" ELSE procs[t].tasks[sessions[s].task].st

TaskFinished(s) == TaskState(s) \in {"done", "failed", "cancelled"}

(* A backend whose requires_file_on_disk() is true has the document text *)
(* written to the file at the document uri on every change.  The text of *)
(* a document is told apart by its version.                              *)
WriteDocument_always(sess) == [sess EXCEPT !.file = sess.document_version]
WriteDocument(sess) ==
    IF sess.on_disk THEN [sess EXCEPT !.file = sess.document_version] ELSE sess

(* pool.acquire(create_lsp_process, base_path_str), pyrefly/session.py:108; *)
(* with pool None the pool is LSPProcessPool(max_size=0), lines 105-106.   *)
(* An idle entry is returned without a suspension, so create goes on to    *)
(* the configuration notification in the same step.  Session objects and   *)
(* workspace keys are interchangeable: they are numbered in the order of   *)
(* their first use.  A pool is not acquired from after its cleanup().      *)
create(s, key) ==
    LET a == Acquire(pool, key, s)
        written == WriteDocument([sessions[s] EXCEPT !.key = key])
        c == Configure(written, procs[a.proc], a.proc, s)
    IN  /\ sessions[s].pc = "new"
        /\ pool.sweeping
        /\ \A r \in Sessions : r < s => sessions[r].pc # "new"
        /\ key = "/w2" => \E r \in Sessions : sessions[r].key = "/w1"
        /\ IF a.how = "idle"
           THEN /\ sessions' = [sessions EXCEPT ![s] = c.sess]
                /\ SetProc(a.proc, c.p)
           ELSE /\ a.how = "build" => pool.lock = 0
                /\ sessions' = [sessions EXCEPT ![s] = [written EXCEPT !.pc = "factory"]]
                /\ UNCHANGED procs
        /\ pool' = a.pool
        /\ UNCHANGED <<server, now>>

(* the factory returns a started, initialized transport *)
FactoryDone(s) ==
    LET t == FreshProc
        c == Configure(sessions[s], InitializedProc, t, s)
    IN  /\ sessions[s].pc = "factory"
        /\ t # NoProc
        /\ procs' = [procs EXCEPT ![t] = c.p]
        /\ server' = [server EXCEPT ![t] = [InitializedServer EXCEPT !.root = RootPath(sessions[s].key)]]
        /\ sessions' = [sessions EXCEPT ![s] = c.sess]
        /\ pool' = IF pool.lock = s THEN Built(pool, t, sessions[s].key) ELSE pool
        /\ UNCHANGED now

(* the subprocess cannot be spawned: the error leaves acquire and create *)
FactoryFail(s) ==
    /\ sessions[s].pc = "factory"
    /\ sessions' = [sessions EXCEPT ![s].pc = "failed"]
    /\ pool' = IF pool.lock = s THEN [pool EXCEPT !.lock = 0] ELSE pool
    /\ UNCHANGED <<procs, server, now>>

(* _open_document, pyrefly/session.py:226-240: didOpen with the document *)
(* version.  An error of the awaited write leaves create as it is.       *)
CreateOpen(s) ==
    LET t == sessions[s].process
        p == SendNotificationOn(procs[t],
                 make_notification("textDocument/didOpen", DocParams(sessions[s].document_version, s)), "session")
    IN  /\ sessions[s].pc = "await_config"
        /\ TaskFinished(s)
        /\ IF TaskState(s) = "done"
           THEN /\ SetProc(t, p)
                /\ sessions' = [sessions EXCEPT ![s].pc = "await_open",
                                   ![s].task = IF procs[t].process = "running"
                                               THEN Len(procs[t].tasks) + 1 ELSE 0]
           ELSE /\ sessions' = [sessions EXCEPT ![s].pc = "failed"]
                /\ UNCHANGED procs
        /\ UNCHANGED <<server, pool, now>>

(* the didOpen write finished; track_document_open(uri) then records   *)
(* the uri on the transport object, a record nothing in the sources      *)
(* reads, and create returns the session                                 *)
CreateReturn(s) ==
    /\ sessions[s].pc = "await_open"
    /\ TaskFinished(s)
    /\ sessions' = [sessions EXCEPT ![s].pc = IF TaskState(s) = "done" THEN "live" ELSE "failed"]
    /\ UNCHANGED <<procs, server, pool, now>>

(* ---------------- PyreflySession.update_code, pyrefly/session.py:149-165 *)
(* the textDocument params of didChange carry the incremented version.  *)
(* The method looks at neither _pool nor any closed flag, so it runs the *)
(* same on a session that was shut down, whose _process is still set.    *)
DidChangeParams_stale(sess, s) == DocParams(sess.document_version - 1, s)
DidChangeParams(sess, s) == DocParams(sess.document_version, s)

update_code(s) ==
    LET t == sessions[s].process
        v == sessions[s].document_version + 1
        p == SendNotificationOn(procs[t],
                 make_notification("textDocument/didChange",
                     DidChangeParams([sessions[s] EXCEPT !.document_version = v], s)), "session")
    IN  /\ sessions[s].pc \in {"live", "closed"}
        /\ v <= MaxVersion
        /\ SetProc(t, p)
        /\ sessions' = [sessions EXCEPT ![s] =
                           [WriteDocument([sessions[s] EXCEPT !.document_version = v]) EXCEPT
                               !.ret = v,
                               !.updates = @ + 1,
                               !.pc = IF sessions[s].pc = "live"
                                      THEN "await_change" ELSE "closed_await_change",
                               !.task = IF procs[t].process = "running"
                                        THEN Len(procs[t].tasks) + 1 ELSE 0]]
        /\ UNCHANGED <<server, pool, now>>

(* return document_version, the value captured before the await *)
UpdateReturn(s) ==
    /\ sessions[s].pc \in {"await_change", "closed_await_change"}
    /\ TaskFinished(s)
    /\ sessions' = [sessions EXCEPT ![s].pc = IF sessions[s].pc = "await_change"
                                              THEN "live" ELSE "closed",
                       ![s].returned = Append(@, IF TaskState(s) = "done"
                                                 THEN sessions[s].ret ELSE NoVersion)]
    /\ UNCHANGED <<procs, server, pool, now>>

(* ---------------- PyreflySession.get_diagnostics, pyrefly/session.py:167-172 *)
get_diagnostics(s) ==
    LET t == sessions[s].process
    IN  /\ sessions[s].pc = "live"
        /\ sessions[s].diag_calls < MaxDiagCalls
        /\ SetProc(t, OnNotification(procs[t], "textDocument/publishDiagnostics", s))
        /\ sessions' = [sessions EXCEPT ![s].pc = "await_diag",
                           ![s].diag_calls = @ + 1,
                           ![s].waiter = Len(procs[t].waiters) + 1]
        /\ UNCHANGED <<server, pool, now>>

DiagReturn(s) ==
    LET t == sessions[s].process
        w == procs[t].waiters[sessions[s].waiter]
    IN  /\ sessions[s].pc = "await_diag"
        /\ w.st = "done"
        /\ sessions' = [sessions EXCEPT ![s].pc = "live", ![s].diag = w.version,
                                        ![s].diag_doc = w.doc,
                                        ![s].diag_at = sessions[s].document_version]
        /\ UNCHANGED <<procs, server, pool, now>>

(* ---------------- PyreflySession.shutdown, pyrefly/session.py:137-147 *)
(* self._pool = None once release has returned *)
Recycled_keep(sess) == sess
Recycled(sess) == [sess EXCEPT !.pool = "none", !.pc = "closed"]

(* release of a pool entry returns without a suspension; a non-pooled    *)
(* transport is stopped, and stop() on a transport that was already      *)
(* stopped returns at once                                               *)
shutdown(s) ==
    LET t == sessions[s].process
        r == Release(pool, t, now)
    IN  /\ sessions[s].pc = "live"
        /\ sessions[s].pool # "none"
        /\ pool' = r.pool
        /\ IF r.pooled
           THEN /\ sessions' = [sessions EXCEPT ![s] = Recycled(@)]
                /\ UNCHANGED <<procs, server>>
           ELSE IF procs[t].stop = "idle"
           THEN /\ StopBegin(t)
                /\ sessions' = [sessions EXCEPT ![s].pc = "releasing"]
           ELSE /\ procs[t].stop = "done"
                /\ sessions' = [sessions EXCEPT ![s] = Recycled(@)]
                /\ UNCHANGED <<procs, server>>
        /\ UNCHANGED now

ShutdownDone(s) ==
    /\ sessions[s].pc = "releasing"
    /\ procs[sessions[s].process].stop = "done"
    /\ sessions' = [sessions EXCEPT ![s] = Recycled(@)]
    /\ UNCHANGED <<procs, server, pool, now>>

(* ---------------- pool maintenance ----------------------------------- *)
idle_sweep ==
    /\ pool.sweeping
    /\ pool' = Sweep(pool, now)
    /\ UNCHANGED <<procs, server, sessions, now>>

(* cleanup() ends the life of the pool; an empty pool has nothing to     *)
(* shut down.  The owner of the pool calls it while no create is in      *)
(* flight, and may call it again.                                        *)
cleanup ==
    /\ pool.sweeping => current_size(pool) > 0
    /\ \A s \in Sessions : sessions[s].pc \in {"new", "live", "releasing", "closed", "failed"}
    /\ pool' = Cleanup(pool)
    /\ UNCHANGED <<procs, server, sessions, now>>

(* the pool awaits stop() of the next transport it dropped; a transport  *)
(* that is stopped already is passed over                                *)
stop_entry ==
    /\ pool.stopping # <<>>
    /\ IF procs[Head(pool.stopping)].stop = "idle"
       THEN /\ StopBegin(Head(pool.stopping))
            /\ UNCHANGED pool
       ELSE /\ procs[Head(pool.stopping)].stop \in {"done", "raised"}
            /\ pool' = [pool EXCEPT !.stopping = Tail(@)]
            /\ UNCHANGED <<procs, server>>
    /\ UNCHANGED <<sessions, now>>

(* the clock advances; it is read only against the stamps of idle entries *)
Tick ==
    /\ now < MaxTime
    /\ pool.available # <<>>
    /\ now' = now + 1
    /\ UNCHANGED <<procs, server, sessions, pool>>

(* ---------------- the language server and documents ------------------ *)
DocMethods == {"textDocument/didOpen", "textDocument/didChange"}

NextDoc(t) ==
    LET later == {i \in DOMAIN server[t].stdin :
                     i > server[t].pos /\ server[t].stdin[i].method \in DocMethods}
    IN  IF later = {} THEN 0 ELSE CHOOSE i \in later : \A j \in later : i <= j

(* the server analyses the next document notification it has read and    *)
(* publishes the diagnostics of that version                             *)
ServerPublish(t) ==
    LET i == NextDoc(t)
    IN  /\ server[t].up
        /\ ~WakeupPending(procs[t])
        /\ i # 0
        /\ SetServer(t, [server[t] EXCEPT !.pos = i,
              !.stdout = Append(@, make_notification("textDocument/publishDiagnostics",
                                    DocParams(server[t].stdin[i].version, server[t].stdin[i].sess)))])
        /\ UNCHANGED <<procs, pvars>>

(* the subprocess dies *)
ServerCrash(t) ==
    /\ server[t].up
    /\ procs[t].stop = "idle"
    /\ SetServer(t, [server[t] EXCEPT !.up = FALSE])
    /\ UNCHANGED <<procs, pvars>>

(* ---------------- one session without a pool ------------------------- *)
InitSession ==
    /\ procs = [t \in Transports |-> NewProc]
    /\ server = [t \in Transports |-> NewServer]
    /\ sessions = [s \in Sessions |-> NewSession]
    /\ pool = NewPool(0, MaxIdleTime)
    /\ now = 0

NextSession ==
    \/ \E s \in {1} :
        \/ create(s, "/w1")
        \/ FactoryDone(s)
        \/ FactoryFail(s)
        \/ CreateOpen(s)
        \/ CreateReturn(s)
        \/ update_code(s)
        \/ UpdateReturn(s)
        \/ get_diagnostics(s)
        \/ DiagReturn(s)
        \/ shutdown(s)
        \/ ShutdownDone(s)
    \/ \E t \in Transports :
        \/ _send_payload(t)
        \/ _read_stdout(t)
        \/ StopExit(t)
        \/ StopCancel(t)
        \/ StopJoin(t)
        \/ \E i \in 1..MaxRequests : ServerRespond(t, i, "result")
        \/ ServerExit(t)
        \/ ServerPublish(t)
        \/ ServerCrash(t)

SpecSession == InitSession /\ [][NextSession]_vars

(* The event loop runs every task that can run and resumes every caller  *)
(* whose await is over; a server that is up reads, analyses, answers and *)
(* exits when told to.  Nothing is assumed of what callers do next.      *)
FairSession ==
    /\ \A s \in {1} :
          /\ WF_vars(FactoryDone(s))
          /\ WF_vars(CreateOpen(s))
          /\ WF_vars(CreateReturn(s))
          /\ WF_vars(UpdateReturn(s))
          /\ WF_vars(DiagReturn(s))
          /\ WF_vars(ShutdownDone(s))
    /\ \A t \in Transports :
          /\ WF_vars(_send_payload(t))
          /\ WF_vars(_read_stdout(t))
          /\ WF_vars(StopExit(t))
          /\ WF_vars(StopCancel(t))
          /\ WF_vars(StopJoin(t))
          /\ WF_vars(\E i \in 1..MaxRequests : ServerRespond(t, i, "result"))
          /\ WF_vars(ServerExit(t))
          /\ WF_vars(ServerPublish(t))

SpecSessionFair == SpecSession /\ FairSession

(* ---------------- sessions on one shared pool ------------------------ *)
InitPool ==
    /\ procs = [t \in Transports |-> NewProc]
    /\ server = [t \in Transports |-> NewServer]
    /\ sessions = [s \in Sessions |-> NewSession]
    /\ pool = NewPool(MaxPoolSize, MaxIdleTime)
    /\ now = 0

NextPool ==
    \/ \E s \in Sessions :
        \/ \E key \in Keys : create(s, key)
        \/ FactoryDone(s)
        \/ FactoryFail(s)
        \/ CreateOpen(s)
        \/ CreateReturn(s)
        \/ shutdown(s)
        \/ ShutdownDone(s)
    \/ idle_sweep
    \/ cleanup
    \/ stop_entry
    \/ Tick
    \/ \E t \in Transports :
        \/ _send_payload(t)
        \/ _read_stdout(t)
        \/ StopExit(t)
        \/ StopCancel(t)
        \/ StopJoin(t)
        \/ \E i \in 1..MaxRequests : ServerRespond(t, i, "result")
        \/ ServerExit(t)
        \/ ServerCrash(t)

SpecPool == InitPool /\ [][NextPool]_vars

(* ---------------- concurrent acquires --------------------------------- *)
(* acquire(factory, key) called while another acquire is inside the       *)
(* factory: the test "no idle entry, current_size < max_size" has been    *)
(* made, construction is required, and the call waits for its turn at    *)
(* the factory, the only part of acquire that is serialized              *)
create_wait(s, key) ==
    LET a == Acquire(pool, key, s)
        written == WriteDocument([sessions[s] EXCEPT !.key = key])
    IN  /\ sessions[s].pc = "new"
        /\ pool.sweeping
        /\ a.how = "build"
        /\ pool.lock # 0
        /\ sessions' = [sessions EXCEPT ![s] = [written EXCEPT !.pc = "build"]]
        /\ UNCHANGED <<procs, server, pool, now>>

(* the factory is free: the waiting acquire enters it *)
FactoryEnter(s) ==
    /\ sessions[s].pc = "build"
    /\ pool.lock = 0
    /\ pool' = [pool EXCEPT !.lock = s]
    /\ sessions' = [sessions EXCEPT ![s].pc = "factory"]
    /\ UNCHANGED <<procs, server, now>>

NextConcurrent ==
    \/ \E s \in Sessions :
        \/ \E key \in Keys : create(s, key)
        \/ \E key \in Keys : create_wait(s, key)
        \/ FactoryEnter(s)
        \/ FactoryDone(s)
        \/ FactoryFail(s)
        \/ CreateOpen(s)
        \/ CreateReturn(s)
        \/ shutdown(s)
        \/ ShutdownDone(s)
    \/ \E t \in Transports :
        \/ _send_payload(t)
        \/ _read_stdout(t)
        \/ StopExit(t)
        \/ StopCancel(t)
        \/ StopJoin(t)
        \/ \E i \in 1..MaxRequests : ServerRespond(t, i, "result")
        \/ ServerExit(t)

SpecConcurrent == InitPool /\ [][NextConcurrent]_vars

(* ---------------- transport driven directly -------------------------- *)
Init ==
    /\ procs = [t \in Transports |-> IF t = 1 THEN [NewProc EXCEPT !.exists = TRUE] ELSE NewProc]
    /\ server = [t \in Transports |-> NewServer]
    /\ sessions = [s \in Sessions |-> NewSession]
    /\ pool = NewPool(0, MaxIdleTime)
    /\ now = 0

Next ==
    \E t \in {1} :
        \/ start(t)
        \/ _send_request(t, "textDocument/hover")
        \/ \E k \in 1..MaxRequests : Resume(t, k)
        \/ \E k \in 1..MaxRequests : CancelAwaiter(t, k)
        \/ _send_payload(t)
        \/ _read_stdout(t)
        \/ stop(t)
        \/ StopExit(t)
        \/ StopCancel(t)
        \/ StopJoin(t)
        \/ \E i \in 1..MaxRequests, body \in {"result", "error"} : ServerRespond(t, i, body)
        \/ ServerExit(t)

Spec == Init /\ [][Next]_vars

(* ---------------- a server that misbehaves --------------------------- *)
(* The transport driven directly against a server that may answer a      *)
(* request twice, answer with an id the client never issued, write a     *)
(* frame the client cannot parse (tests/mock_lsp_server.py:74-81), or    *)
(* die.  At most MaxFaults faulty frames are written; faults keeps them.  *)
(* The client issues at most MaxFaultyRequests requests.                 *)
UnknownId == MaxRequests + 2

Faulty(srv, frame) == [srv EXCEPT !.faults = Append(@, frame), !.stdout = Append(@, frame)]

ServerRespondAgain(t, i) ==
    /\ server[t].up
    /\ ~WakeupPending(procs[t])
    /\ Len(server[t].faults) < MaxFaults
    /\ i \in server[t].answered
    /\ SetServer(t, Faulty(server[t], Response(i, "result", i + MaxRequests)))
    /\ UNCHANGED <<procs, pvars>>

ServerRespondUnknown(t) ==
    /\ server[t].up
    /\ ~WakeupPending(procs[t])
    /\ Len(server[t].faults) < MaxFaults
    /\ SetServer(t, Faulty(server[t], Response(UnknownId, "result", UnknownId)))
    /\ UNCHANGED <<procs, pvars>>

ServerMalformed(t, kind) ==
    /\ server[t].up
    /\ ~WakeupPending(procs[t])
    /\ Len(server[t].faults) < MaxFaults
    /\ SetServer(t, Faulty(server[t], Response(NoId, kind, 0)))
    /\ UNCHANGED <<procs, pvars>>

NextFaulty ==
    \E t \in {1} :
        \/ start(t)
        \/ (Len(procs[t].calls) < MaxFaultyRequests /\ _send_request(t, "textDocument/hover"))
        \/ \E k \in 1..MaxFaultyRequests : Resume(t, k)
        \/ \E k \in 1..MaxFaultyRequests : CancelAwaiter(t, k)
        \/ _read_stdout(t)
        \/ _read_stdout_eof(t)
        \/ \E i \in 1..MaxFaultyRequests : ServerRespond(t, i, "result")
        \/ \E i \in 1..MaxFaultyRequests : ServerRespondAgain(t, i)
        \/ ServerRespondUnknown(t)
        \/ \E kind \in {"malformed", "no_length"} : ServerMalformed(t, kind)
        \/ ServerCrash(t)

SpecFaulty == Init /\ [][NextFaulty]_vars

(* ---------------- a server that leaves requests unanswered ----------- *)
(* The transport driven directly against a server whose only fault is    *)
(* silence (tests/mock_lsp_server.py:92-94): it answers a request with a *)
(* result or not at all, and it does answer shutdown.  The event loop    *)
(* runs every task that can run; the server need not act on exit, since  *)
(* stop() bounds its wait for the process by a deadline.                 *)
ServerAnswersShutdown(t) ==
    /\ procs[t].stopCall # NoCall
    /\ ServerRespond(t, procs[t].calls[procs[t].stopCall].id, "result")

NextSilent ==
    \E t \in {1} :
        \/ start(t)
        \/ _send_request(t, "textDocument/hover")
        \/ \E k \in 1..MaxRequests : Resume(t, k)
        \/ \E k \in 1..MaxRequests : CancelAwaiter(t, k)
        \/ _send_payload(t)
        \/ _read_stdout(t)
        \/ stop(t)
        \/ StopExit(t)
        \/ StopCancel(t)
        \/ StopJoin(t)
        \/ \E i \in 1..MaxRequests : ServerRespond(t, i, "result")
        \/ ServerExit(t)

FairSilent ==
    \A t \in {1} :
        /\ WF_vars(\E k \in 1..MaxRequests : Resume(t, k))
        /\ WF_vars(_send_payload(t))
        /\ WF_vars(_read_stdout(t))
        /\ WF_vars(ServerAnswersShutdown(t))
        /\ WF_vars(StopExit(t))
        /\ WF_vars(StopCancel(t))
        /\ WF_vars(StopJoin(t))

SpecSilent == Init /\ [][NextSilent]_vars /\ FairSilent

(* The same transport and server with fairness of the client's event    *)
(* loop only: the server may answer shutdown, exit, or do neither.       *)
FairClient ==
    \A t \in {1} :
        /\ WF_vars(\E k \in 1..MaxRequests : Resume(t, k))
        /\ WF_vars(_send_payload(t))
        /\ WF_vars(_read_stdout(t))
        /\ WF_vars(StopExit(t))
        /\ WF_vars(StopCancel(t))
        /\ WF_vars(StopJoin(t))

SpecStop == Init /\ [][NextSilent]_vars /\ FairClient

(* ---------------- sessions that follow each other on one transport --- *)
(* Sessions of one workspace on a pool of MaxPoolSize entries ask for    *)
(* the diagnostics of their documents; a session that finds the pool     *)
(* full gets a transport of its own, which is stopped on shutdown.       *)
NextRecycle ==
    \/ \E s \in Sessions :
        \/ create(s, "/w1")
        \/ FactoryDone(s)
        \/ CreateOpen(s)
        \/ CreateReturn(s)
        \/ get_diagnostics(s)
        \/ DiagReturn(s)
        \/ shutdown(s)
        \/ ShutdownDone(s)
    \/ \E t \in Transports :
        \/ _send_payload(t)
        \/ _read_stdout(t)
        \/ StopExit(t)
        \/ StopCancel(t)
        \/ StopJoin(t)
        \/ \E i \in 1..MaxRequests : ServerRespond(t, i, "result")
        \/ ServerExit(t)
        \/ ServerPublish(t)

SpecRecycle == InitPool /\ [][NextRecycle]_vars

(* ---------------- shutdown() called again ----------------------------- *)
(* PyreflySession.shutdown on a session whose _pool is None,             *)
(* pyrefly/session.py:139-140: it returns at once.  again records that   *)
(* the call was made.                                                    *)
Again_release(pl, sess, time) ==
    IF sess.process \in ActiveProcs(pl) THEN Release(pl, sess.process, time).pool ELSE pl
Again(pl, sess, time) == pl

shutdown_again(s) ==
    /\ sessions[s].pc = "closed"
    /\ sessions[s].pool = "none"
    /\ pool' = Again(pool, sessions[s], now)
    /\ sessions' = [sessions EXCEPT ![s].again = TRUE]
    /\ UNCHANGED <<procs, server, now>>

NextShutdown ==
    \/ \E s \in Sessions :
        \/ create(s, "/w1")
        \/ FactoryDone(s)
        \/ CreateOpen(s)
        \/ CreateReturn(s)
        \/ shutdown(s)
        \/ ShutdownDone(s)
        \/ shutdown_again(s)
    \/ \E t \in Transports :
        \/ _send_payload(t)
        \/ _read_stdout(t)
        \/ StopExit(t)
        \/ StopCancel(t)
        \/ StopJoin(t)
        \/ \E i \in 1..MaxRequests : ServerRespond(t, i, "result")
        \/ ServerExit(t)

SpecShutdown == InitPool /\ [][NextShutdown]_vars

(* ===================== properties ===================== *)
Done == {"result", "error", "invalid"}

(* C1: a response carrying id i completes only the awaiter of the request *)
(* sent with id i, with that response's result; every other pending       *)
(* request stays pending.                                                 *)
C1_ResponseCompletesOnlyItsAwaiter ==
    [][\A t \in Transports : \A k \in DOMAIN procs[t].calls :
          (procs[t].calls[k].fut = "pending" /\ procs'[t].calls[k].fut \in Done)
          => /\ server[t].stdout # <<>>
             /\ Head(server[t].stdout).id = procs[t].calls[k].id
             /\ procs'[t].calls[k].fut = Head(server[t].stdout).body
             /\ procs'[t].calls[k].val = Head(server[t].stdout).val]_vars

(* a later request was answered first while an earlier one is still pending *)
C1_Witness ==
    \E t \in Transports : \E k1, k2 \in DOMAIN procs[t].calls :
        /\ k1 < k2
        /\ procs[t].calls[k1].fut = "pending"
        /\ procs[t].calls[k1].st = "awaiting"
        /\ procs[t].calls[k2].st = "returned"
        /\ procs[t].calls[k2].val = procs[t].calls[k2].id

(* C2: every request ends with its response or with Cancelled when the    *)
(* transport stops: once stop() has returned no awaiter is still pending. *)
C2_NoAwaiterPendingAfterStop ==
    \A t \in Transports :
        procs[t].stop = "done"
        => \A k \in DOMAIN procs[t].calls : procs[t].calls[k].st # "awaiting"

(* C7: request ids come from a counter that starts at 1 and strictly      *)
(* increases: the k-th request of a transport carries id k, whatever      *)
(* happened to the earlier requests.                                      *)
C7_IdsStrictlyIncrease ==
    \A t \in Transports : \A k \in DOMAIN procs[t].calls :
        /\ procs[t].calls[k].id = k
        /\ \A j \in DOMAIN procs[t].calls : j < k => procs[t].calls[j].id < procs[t].calls[k].id

(* a request is issued after one request was answered and one was cancelled *)
C7_Witness ==
    \E t \in Transports : \E k1, k2, k3 \in DOMAIN procs[t].calls :
        /\ procs[t].calls[k1].st = "returned"
        /\ procs[t].calls[k2].st = "cancelled"
        /\ k1 < k3 /\ k2 < k3
        /\ procs[t].calls[k3].st = "awaiting"
        /\ procs[t].pending_requests = Put(<<>>, procs[t].calls[k3].id, k3)

(* C3: after update_code returned v, get_diagnostics returns diagnostics  *)
(* of version v (the code passes no timeout and logs nothing, so no other *)
(* outcome of the claim is available).                                    *)
C3_DiagnosticsFresh ==
    \A s \in Sessions :
        sessions[s].diag_at >= 2 => sessions[s].diag = sessions[s].diag_at

(* C8: the document version is 1 after create and the k-th update_code    *)
(* call of a session returns k + 1.                                       *)
C8_UpdateCodeReturns ==
    \A s \in Sessions :
        /\ (sessions[s].pc = "live" /\ sessions[s].updates = 0)
              => sessions[s].document_version = 1
        /\ \A k \in DOMAIN sessions[s].returned :
              sessions[s].returned[k] # NoVersion => sessions[s].returned[k] = k + 1

(* two update_code calls have returned, 2 and then 3 *)
C8_Witness ==
    \E s \in Sessions :
        /\ Len(sessions[s].returned) >= 2
        /\ sessions[s].returned[1] = 2
        /\ sessions[s].returned[2] = 3

(* the document notifications that session s wrote on transport t *)
DocsOnWire(t, s) ==
    SelectSeq(server[t].stdin, LAMBDA m : m.method \in DocMethods /\ m.sess = s)

(* C9: on the wire of one session the i-th document notification carries  *)
(* version i, the first is the didOpen and every later one a didChange:   *)
(* no version is skipped, duplicated or out of order.                     *)
C9_VersionsInOrderOnWire ==
    \A t \in Transports : \A s \in Sessions :
        \A i \in DOMAIN DocsOnWire(t, s) :
            /\ DocsOnWire(t, s)[i].version = i
            /\ DocsOnWire(t, s)[i].method =
                  IF i = 1 THEN "textDocument/didOpen" ELSE "textDocument/didChange"

(* didOpen 1, didChange 2 and didChange 3 are on the wire *)
C9_Witness ==
    \E t \in Transports : \E s \in Sessions :
        /\ Len(DocsOnWire(t, s)) >= 3
        /\ DocsOnWire(t, s)[3].method = "textDocument/didChange"
        /\ DocsOnWire(t, s)[3].version = 3

(* C4: after any sequence of acquire, release, idle sweep and cleanup     *)
(* every entry of the pool is in exactly one of available and active,     *)
(* current_size counts each entry once, and current_size never exceeds    *)
(* max_size; non-pooled transports are not counted.                       *)
C4_PoolAccounting ==
    /\ AvailableProcs(pool) \cap ActiveProcs(pool) = {}
    /\ Cardinality(AvailableProcs(pool)) = Len(pool.available)
    /\ Cardinality(ActiveProcs(pool)) = Cardinality(pool.active)
    /\ current_size(pool) = Cardinality(AvailableProcs(pool) \cup ActiveProcs(pool))
    /\ current_size(pool) <= pool.max_size

(* the pool is full and a live session holds a non-pooled transport *)
C4_Witness ==
    \E s \in Sessions :
        /\ sessions[s].pc = "live"
        /\ sessions[s].process \notin (AvailableProcs(pool) \cup ActiveProcs(pool))
        /\ pool.sweeping
        /\ current_size(pool) = pool.max_size

(* C5: when create fails after the transport was acquired, the transport  *)
(* has been released: it is no active entry, and it is an available entry *)
(* of the pool or stop() was called on it.                                *)
C5_FailedCreateReleasesTransport ==
    \A s \in Sessions :
        (sessions[s].pc = "failed" /\ sessions[s].process # NoProc)
        => /\ sessions[s].process \notin ActiveProcs(pool)
           /\ \/ sessions[s].process \in AvailableProcs(pool)
              \/ procs[sessions[s].process].stop # "idle"

(* C6: no transport is held by two sessions that have not been shut down, *)
(* and a transport held by such a session is no idle entry of the pool.   *)
C6_NoTransportHeldTwice ==
    /\ \A s1, s2 \in Sessions :
          (s1 # s2 /\ sessions[s1].pool # "none" /\ sessions[s2].pool # "none")
          => sessions[s1].process # sessions[s2].process
    /\ \A s \in Sessions :
          sessions[s].pool # "none" => sessions[s].process \notin AvailableProcs(pool)

(* a session holds the transport that a session shut down before had held *)
C6_Witness ==
    \E s1, s2 \in Sessions :
        /\ s1 # s2
        /\ sessions[s1].pc = "closed"
        /\ sessions[s2].pool # "none"
        /\ sessions[s2].process = sessions[s1].process

(* C10: when create acquires with a key of which an idle entry exists, it *)
(* gets that entry, no transport is built and current_size is unchanged;  *)
(* without such an entry it goes to the factory.                          *)
C10_IdleEntryReusedWithoutFactory ==
    [][\A s \in Sessions :
          (sessions[s].pc = "new" /\ sessions'[s].pc # "new")
          => IF \E i \in DOMAIN pool.available : pool.available[i].key = sessions'[s].key
             THEN /\ sessions'[s].pc = "await_config"
                  /\ \E i \in DOMAIN pool.available :
                        /\ pool.available[i].key = sessions'[s].key
                        /\ pool.available[i].proc = sessions'[s].process
                  /\ sessions'[s].process \in ActiveProcs(pool')
                  /\ current_size(pool') = current_size(pool)
                  /\ \A t \in Transports : procs'[t].exists = procs[t].exists
             ELSE sessions'[s].pc = "factory"]_vars

(* session B is live on the one transport that exists, after session A   *)
(* was shut down on it, and current_size is 1                            *)
C10_Witness ==
    \E a, b \in Sessions :
        /\ sessions[a].pc = "closed"
        /\ sessions[b].pc = "live"
        /\ sessions[b].key = sessions[a].key
        /\ sessions[b].process = sessions[a].process
        /\ current_size(pool) = 1
        /\ Cardinality({t \in Transports : procs[t].exists}) = 1

C12_NonPooledWhenFull ==
    [][\A s \in Sessions :
          /\ (sessions[s].pc = "new" /\ sessions'[s].pc = "factory"
                 /\ current_size(pool) >= pool.max_size)
             => pool' = pool
          /\ (sessions[s].pc = "factory" /\ sessions'[s].pc = "await_config"
                 /\ pool.lock # s)
             => /\ current_size(pool') = current_size(pool)
                /\ sessions'[s].process \notin (AvailableProcs(pool') \cup ActiveProcs(pool'))
          /\ (sessions[s].pc = "live" /\ sessions'[s].pc \in {"releasing", "closed"}
                 /\ sessions[s].process \notin ActiveProcs(pool))
             => /\ pool'.available = pool.available
                /\ current_size(pool') = current_size(pool)
                /\ procs'[sessions[s].process].stop # "idle"]_vars

(* a non-pooled transport built while the pool was full has been released *)
(* and stopped before any entry could expire; the pool still holds        *)
(* max_size entries                                                       *)
C12_Witness ==
    \E s \in Sessions :
        /\ sessions[s].pc = "closed"
        /\ procs[sessions[s].process].stop = "done"
        /\ sessions[s].process \notin (AvailableProcs(pool) \cup ActiveProcs(pool))
        /\ pool.sweeping
        /\ now = 0
        /\ pool.max_size > 0
        /\ current_size(pool) = pool.max_size

C14_CleanupEmptiesPool ==
    ~pool.sweeping
    => /\ available_count(pool) = 0
       /\ current_size(pool) = 0
       /\ pool.stopping = <<>>
          => \A t \in pool.cleaned :
                /\ procs[t].stop = "done"
                /\ procs[t].process = "none"
                /\ ~server[t].up

(* cleanup() has returned after it shut down the transport of a session   *)
(* that is still live                                                     *)
C14_Witness ==
    \E s \in Sessions :
        /\ sessions[s].pc = "live"
        /\ sessions[s].process \in pool.cleaned
        /\ ~pool.sweeping
        /\ pool.stopping = <<>>

(* C15: an error response fails the awaiter of its request with the code  *)
(* and message of the response and nothing else: reading it changes only  *)
(* the future of that request, raising it changes only that caller and    *)
(* its slot, and the process and the reader are left as they were, so     *)
(* other and later requests are still answered.  (An error response that  *)
(* finds the slot of a request whose future is done or cancelled already  *)
(* has no awaiter to fail; it is not the case of this claim.)             *)
C15_ErrorFailsOnlyItsAwaiter ==
    [][\A t \in Transports :
          LET p == procs[t]
              q == procs'[t]
              msg == Head(server[t].stdout)
              Others(k) == \A j \in DOMAIN p.calls : j # k => q.calls[j] = p.calls[j]
              Live(m) == m.id \in DOMAIN p.pending_requests
                             => p.calls[p.pending_requests[m.id]].fut = "pending"
              Healthy == /\ q.process = p.process
                         /\ q.reader = p.reader
                         /\ q.tasks = p.tasks
                         /\ q.request_id_gen = p.request_id_gen
                         /\ q.notification_queue = p.notification_queue
                         /\ DOMAIN q.calls = DOMAIN p.calls
          IN  /\ ( /\ server[t].stdout # <<>>
                   /\ server'[t].stdout = Tail(server[t].stdout)
                   /\ msg.body = "error"
                   /\ Live(msg) )
                 => /\ Healthy
                    /\ q.pending_requests = p.pending_requests
                    /\ IF msg.id \in DOMAIN p.pending_requests
                       THEN LET k == p.pending_requests[msg.id]
                            IN  /\ p.calls[k].id = msg.id
                                /\ q.calls[k] = [p.calls[k] EXCEPT !.fut = "error", !.val = msg.val,
                                                                   !.set = @ + 1]
                                /\ Others(k)
                       ELSE q.calls = p.calls
              /\ \A k \in DOMAIN p.calls :
                    (p.calls[k].fut = "error" /\ p.calls[k].st = "awaiting" /\ q.calls[k].st # "awaiting")
                    => /\ q.calls[k] = [p.calls[k] EXCEPT !.st = "raised"]
                       /\ Others(k)
                       /\ Healthy
                       /\ q.pending_requests = Pop(p.pending_requests, p.calls[k].id)
              /\ ( /\ \E k \in DOMAIN p.calls : p.calls[k].fut = "error"
                   /\ p.stop = "idle" )
                 => p.process = "running"]_vars

(* the first request failed with the error of its response, the second is *)
(* still waiting, and the third, issued later, got its result             *)
C15_Witness ==
    \E t \in Transports :
        /\ Len(procs[t].calls) = 3
        /\ procs[t].calls[1].st = "raised"
        /\ procs[t].calls[1].fut = "error"
        /\ procs[t].calls[1].val = procs[t].calls[1].id
        /\ procs[t].calls[2].st = "awaiting"
        /\ procs[t].calls[2].fut = "pending"
        /\ procs[t].calls[3].st = "returned"
        /\ procs[t].calls[3].val = procs[t].calls[3].id
        /\ procs[t].stop = "idle"

(* C16: when a request is never answered and its awaiter is cancelled by  *)
(* a deadline, the awaiter fails (with the Timeout of the deadline) and   *)
(* its slot is freed; a stop() of that transport never raises and, in     *)
(* every run in which no response finds a cancelled slot and ends the     *)
(* reader, runs to completion.                                            *)
TimedOut(t) ==
    \E k \in DOMAIN procs[t].calls :
        /\ procs[t].calls[k].st = "cancelled"
        /\ procs[t].calls[k].id \notin server[t].answered

C16_StopCompletesAfterTimeout ==
    /\ [](\A t \in Transports : \A k \in DOMAIN procs[t].calls :
            procs[t].calls[k].st = "cancelled"
            => /\ procs[t].calls[k].fut = "cancelled"
               /\ procs[t].calls[k].id \notin DOMAIN procs[t].pending_requests)
    /\ [](\A t \in Transports : TimedOut(t) => procs[t].stop # "raised")
    /\ \A t \in Transports :
          [](procs[t].reader # "failed")
          => ((TimedOut(t) /\ procs[t].stop \notin {"idle", "done"}) ~> (procs[t].stop = "done"))

(* stop() has returned on a transport whose first request reached the     *)
(* server, was never answered and timed out before stop() sent shutdown   *)
C16_Witness ==
    \E t \in Transports :
        /\ procs[t].stop = "done"
        /\ procs[t].process = "none"
        /\ Len(procs[t].calls) >= 2
        /\ procs[t].calls[1].st = "cancelled"
        /\ procs[t].calls[1].id \in RequestsOnWire(t)
        /\ procs[t].calls[1].id \notin server[t].answered
        /\ procs[t].stopCall > 1
        /\ procs[t].calls[procs[t].stopCall].st = "returned"

(* C17: a get_diagnostics call made while the diagnostics of the current  *)
(* document version were already returned (no update_code since) returns  *)
(* at once, without waiting for a further publishDiagnostics, and every   *)
(* call that returns at that version returns the same diagnostics.        *)
C17_RepeatedDiagnosticsMemoized ==
    [][\A s \in Sessions :
          (sessions[s].diag_at = sessions[s].document_version)
          => /\ (sessions[s].pc = "live" /\ sessions'[s].diag_calls = sessions[s].diag_calls + 1)
                => (sessions'[s].pc = "live" /\ sessions'[s].diag = sessions[s].diag)
             /\ (sessions[s].pc = "await_diag" /\ sessions'[s].pc = "live")
                => sessions'[s].diag = sessions[s].diag]_vars

(* C18: get_diagnostics never hangs: while the server process lives, a    *)
(* call that is waiting eventually returns or fails.                      *)
Crashed(t) == procs[t].process = "running" /\ ~server[t].up /\ procs[t].stop = "idle"

C18_GetDiagnosticsTerminates ==
    \A s \in Sessions :
        [](\A t \in Transports : ~Crashed(t))
        => ((sessions[s].pc = "await_diag") ~> (sessions[s].pc # "await_diag"))

(* C19: once shutdown() has completed the session is terminal: a further  *)
(* operation on it writes nothing to the transport it released and fails, *)
(* so it returns no value to its caller.                                  *)
Closed(s) == sessions[s].pc \in {"closed", "closed_await_change"}

WrittenBy(t, s) == {i \in DOMAIN procs[t].tasks : procs[t].tasks[i].msg.sess = s}

C19_ClosedSessionRejects ==
    [][\A s \in Sessions :
          Closed(s)
          => /\ \A i \in DOMAIN sessions'[s].returned :
                   i > Len(sessions[s].returned) => sessions'[s].returned[i] = NoVersion
             /\ \A t \in Transports :
                   {i \in DOMAIN procs'[t].tasks : procs'[t].tasks[i].msg.sess = s} = WrittenBy(t, s)]_vars

(* C20: what get_diagnostics returns to a session are diagnostics the     *)
(* server published for that session's own document, never those of the   *)
(* document of a session that held the transport before.                  *)
C20_RecycledSessionOwnDiagnostics ==
    \A s \in Sessions : sessions[s].diag_doc \in {0, s}

(* C21: when the stdout reader has met end of file and returned, no       *)
(* request is left with a pending future: every outstanding slot was      *)
(* completed with Cancelled.                                              *)
C21_EOFCancelsPending ==
    \A t \in Transports :
        (procs[t].reader = "done" /\ ~server[t].up)
        => \A k \in DOMAIN procs[t].calls : procs[t].calls[k].fut # "pending"

(* C22: a frame that cannot be parsed is fatal to the transport: once the *)
(* reader has read one, every pending slot is completed with Cancelled,   *)
(* so no future is left pending.                                          *)
C22_MalformedFrameIsFatal ==
    [][\A t \in Transports :
          ( /\ server[t].stdout # <<>>
            /\ server'[t].stdout = Tail(server[t].stdout)
            /\ Head(server[t].stdout).body \in {"malformed", "no_length"} )
          => \A k \in DOMAIN procs'[t].calls : procs'[t].calls[k].fut # "pending"]_vars

(* C23: whatever the server writes, two responses with the same id        *)
(* included, the future of a request receives a result or an error at     *)
(* most once.                                                             *)
C23_SlotResolvedAtMostOnce ==
    \A t \in Transports : \A k \in DOMAIN procs[t].calls :
        /\ procs[t].calls[k].set <= 1
        /\ procs[t].calls[k].set = 1 => procs[t].calls[k].val = procs[t].calls[k].id

(* a second response to a request was read while the slot of the request  *)
(* was still registered, and the future kept its first result             *)
C23_Witness ==
    \E t \in Transports : \E k \in DOMAIN procs[t].calls :
        /\ server[t].faults = <<Response(procs[t].calls[k].id, "result", procs[t].calls[k].id + MaxRequests)>>
        /\ server[t].stdout = <<>>
        /\ procs[t].calls[k].fut = "result"
        /\ procs[t].calls[k].st = "awaiting"
        /\ procs[t].reader = "failed"

(* C30: a response whose id matches no live pending slot (never issued,   *)
(* already completed, or cancelled) is dropped: reading it changes        *)
(* nothing of the transport, and the reader keeps running.                *)
C30_StrayResponseDropped ==
    [][\A t \in Transports :
          LET msg == Head(server[t].stdout)
              p == procs[t]
          IN  ( /\ server[t].stdout # <<>>
                /\ server'[t].stdout = Tail(server[t].stdout)
                /\ msg.body \in {"result", "error"}
                /\ ~( /\ msg.id \in DOMAIN p.pending_requests
                      /\ p.calls[p.pending_requests[msg.id]].fut = "pending" ) )
              => procs'[t] = procs[t]]_vars

(* C29: cancelling the awaiter of a pending request writes nothing to    *)
(* the server, neither at once nor through a writer task, and leaves     *)
(* every other call and the pending map's other slots as they were; when *)
(* the cancelled awaiter has run, its own slot is gone from the map and  *)
(* again nothing was written.                                            *)
Cancels(t, k) ==
    /\ k \in DOMAIN procs[t].calls
    /\ procs[t].calls[k].fut = "pending"
    /\ procs'[t].calls[k].fut = "cancelled"

CancelDelivered(t, k) ==
    /\ k \in DOMAIN procs[t].calls
    /\ procs[t].calls[k].fut = "cancelled"
    /\ procs[t].calls[k].st = "awaiting"
    /\ procs'[t].calls[k].st = "cancelled"

OthersUnchanged(t, k) ==
    /\ server'[t].stdin = server[t].stdin
    /\ procs'[t].tasks = procs[t].tasks
    /\ \A j \in DOMAIN procs[t].calls : j # k => procs'[t].calls[j] = procs[t].calls[j]
    /\ \A i \in DOMAIN procs[t].pending_requests :
           i # procs[t].calls[k].id =>
               /\ i \in DOMAIN procs'[t].pending_requests
               /\ procs'[t].pending_requests[i] = procs[t].pending_requests[i]

C29_CancelRemovesSlotWritesNothing ==
    [][\A t \in Transports : \A k \in 1..MaxRequests :
          /\ Cancels(t, k) => OthersUnchanged(t, k)
          /\ CancelDelivered(t, k) =>
                 /\ OthersUnchanged(t, k)
                 /\ procs[t].calls[k].id \notin DOMAIN procs'[t].pending_requests]_vars

C29_Witness ==
    \E t \in Transports : \E k, j \in DOMAIN procs[t].calls :
        /\ k # j
        /\ procs[t].calls[k].st = "cancelled"
        /\ procs[t].calls[k].id \notin DOMAIN procs[t].pending_requests
        /\ procs[t].calls[j].fut = "pending"
        /\ procs[t].calls[j].id \in DOMAIN procs[t].pending_requests
        /\ \A n \in DOMAIN server[t].stdin : server[t].stdin[n].method # "$/cancelRequest"

(* ---------------- one-shot waiters with a deadline ------------------- *)
MaxWaiters == 2
MaxNotifications == 2
WaiterMethods == {"textDocument/publishDiagnostics", "window/logMessage"}
(* timeout=None (written 0) or one unit of time *)
Timeouts == {0, 1}

(* on_<notification>(timeout=...) of the facade,                         *)
(* generate_notifications.py:60-84; timeout 0 stands for None            *)
on_notification(t, method, timeout) ==
    /\ procs[t].process = "running"
    /\ Len(procs[t].waiters) < MaxWaiters
    /\ timeout # 0 => now + timeout <= MaxTime
    /\ SetProc(t, RegisterWaiter(procs[t], method,
                                 IF timeout = 0 THEN NoDeadline ELSE now + timeout, 0))
    /\ UNCHANGED <<server, pvars>>

WaiterTimeout(t, i) ==
    /\ i \in DOMAIN procs[t].waiters
    /\ procs[t].waiters[i].st = "waiting"
    /\ procs[t].waiters[i].deadline # NoDeadline
    /\ now >= procs[t].waiters[i].deadline
    /\ SetProc(t, ExpireWaiter(procs[t], i))
    /\ UNCHANGED <<server, pvars>>

(* the messages the server has written of its own accord so far *)
Notified(t) == server[t].written

(* the server writes a notification; its params are told apart by the   *)
(* notification's number                                                 *)
ServerNotify(t, method) ==
    /\ server[t].up
    /\ Notified(t) < MaxNotifications
    /\ SetServer(t, [server[t] EXCEPT
           !.written = @ + 1,
           !.stdout = Append(@, [make_notification(method, NoParams)
                                    EXCEPT !.val = Notified(t) + 1])])
    /\ UNCHANGED <<procs, pvars>>

(* time passes; it is read only against the deadlines of waiters *)
Clock ==
    /\ now < MaxTime
    /\ \E t \in Transports : \E i \in DOMAIN procs[t].waiters :
           procs[t].waiters[i].st = "waiting" /\ procs[t].waiters[i].deadline > now
    /\ now' = now + 1
    /\ UNCHANGED <<procs, server, sessions, pool>>

NextWaiter ==
    \/ \E t \in {1} :
          \/ start(t)
          \/ \E method \in WaiterMethods : \E timeout \in Timeouts :
                on_notification(t, method, timeout)
          \/ \E i \in 1..MaxWaiters : WaiterTimeout(t, i)
          \/ \E method \in WaiterMethods : ServerNotify(t, method)
          \/ _read_stdout(t)
    \/ Clock

(* the event loop runs the reader and the timer callbacks, and time      *)
(* passes                                                                *)
FairWaiter ==
    /\ WF_vars(Clock)
    /\ WF_vars(_read_stdout(1))
    /\ \A i \in 1..MaxWaiters : WF_vars(WaiterTimeout(1, i))

SpecWaiter == Init /\ [][NextWaiter]_vars /\ FairWaiter

(* C24: a notification that is read while a waiter of its method is      *)
(* waiting completes one such waiter with the notification's params and  *)
(* removes it, leaving the other waiters alone; a waiter fails with      *)
(* Timeout only at or after its deadline and, if it has a deadline,      *)
(* does not wait for ever; a waiter that completed or timed out never    *)
(* changes again, so it completes at most once.                          *)
ReadsNotification(t) ==
    /\ server[t].stdout # <<>>
    /\ server'[t].stdout = Tail(server[t].stdout)
    /\ Head(server[t].stdout).method # ""

C24_WaiterCompletesOrTimesOut ==
    /\ [][\A t \in Transports :
            LET ws == procs[t].waiters
                ws2 == procs'[t].waiters
            IN  /\ (ReadsNotification(t) /\ \E i \in DOMAIN ws :
                        ws[i].st = "waiting" /\ ws[i].method = Head(server[t].stdout).method)
                   => \E i \in DOMAIN ws :
                        /\ ws[i].st = "waiting"
                        /\ ws[i].method = Head(server[t].stdout).method
                        /\ ws2[i].st = "done"
                        /\ ws2[i].val = Head(server[t].stdout).val
                        /\ ws2[i].set = 1
                        /\ \A j \in DOMAIN ws : j # i => ws2[j] = ws[j]
                /\ \A i \in DOMAIN ws :
                        /\ ws[i].st # "waiting" => ws2[i] = ws[i]
                        /\ (ws[i].st = "waiting" /\ ws2[i].st = "timeout")
                           => /\ ws[i].deadline # NoDeadline
                              /\ now >= ws[i].deadline
                              /\ ws2[i].set = 0]_vars
    /\ \A i \in 1..MaxWaiters :
          (i \in DOMAIN procs[1].waiters /\ procs[1].waiters[i].deadline # NoDeadline)
              ~> (i \in DOMAIN procs[1].waiters
                  /\ procs[1].waiters[i].st \in {"done", "timeout"})

C24_Witness ==
    \E i, j \in DOMAIN procs[1].waiters :
        /\ procs[1].waiters[i].st = "done"
        /\ procs[1].waiters[i].val = 2
        /\ procs[1].waiters[i].set = 1
        /\ procs[1].waiters[j].st = "timeout"
        /\ procs[1].waiters[j].method = procs[1].waiters[i].method

(* ---------------- the framer on raw frames --------------------------- *)
(* A frame on the wire: its header lines in order, then the blank line,  *)
(* then the body.  A header line is its name as written and, for a       *)
(* length header, the number it carries; a body is a JSON text, which    *)
(* is a payload written in some style.                                   *)
MaxHeaders == 2
MaxPayload == 2
HeaderNames == {"Content-Length", "content-length", "Content-Type", "X-Trace"}
LengthNames == {"Content-Length", "content-length"}
BodyStyles == {"compact", "spaced"}
Payloads == 1..MaxPayload

(* len(json.dumps(payload, separators=(",", ":"))) against                *)
(* len(json.dumps(payload)): the default separators add a space after    *)
(* every comma and colon (mock_lsp_server.py:68)                         *)
BodyLen(body) ==
    IF body.style = "compact" THEN 10 * body.payload ELSE 10 * body.payload + body.payload + 1

HeaderLine(name, body) ==
    [name |-> name, value |-> IF name \in LengthNames THEN BodyLen(body) ELSE 0]

HeaderBlocks == UNION {[1..n -> HeaderNames] : n \in 0..MaxHeaders}

RawFrames ==
    { [headers |-> [i \in DOMAIN h |-> HeaderLine(h[i], b)], body |-> b] :
          h \in HeaderBlocks, b \in [style : BodyStyles, payload : Payloads] }

(* spec.md 3: header names are case-insensitive; Content-Length is the   *)
(* only required header                                                  *)
HasContentLength(frame) ==
    \E i \in DOMAIN frame.headers : frame.headers[i].name \in LengthNames

ValidFrame(frame) ==
    /\ Cardinality({i \in DOMAIN frame.headers : frame.headers[i].name \in LengthNames}) = 1
    /\ \A i, j \in DOMAIN frame.headers :
          frame.headers[i].name = frame.headers[j].name => i = j

(* session.py:178-190: compact JSON, Content-Length then Content-Type *)
encode(payload) ==
    LET b == [style |-> "compact", payload |-> payload]
    IN  [ headers |-> <<HeaderLine("Content-Length", b), HeaderLine("Content-Type", b)>>,
          body |-> b ]

(* session.py:200-217: a line that does not start with the bytes         *)
(* "Content-Length: " is skipped; after the first line that does, the    *)
(* rest of the header block is discarded and the body is read and        *)
(* parsed.  Nothing raises for a block without such a line.              *)
FirstLength(frame) ==
    IF \E i \in DOMAIN frame.headers : frame.headers[i].name = "Content-Length"
    THEN CHOOSE i \in DOMAIN frame.headers :
            /\ frame.headers[i].name = "Content-Length"
            /\ \A j \in DOMAIN frame.headers :
                  frame.headers[j].name = "Content-Length" => i <= j
    ELSE 0

decode(frame) ==
    LET i == FirstLength(frame)
    IN  IF i = 0 \/ frame.headers[i].value = 0
        THEN [kind |-> "skipped", payload |-> 0]
        ELSE IF frame.headers[i].value # BodyLen(frame.body)
        THEN [kind |-> "raised", payload |-> 0]
        ELSE [kind |-> "payload", payload |-> frame.body.payload]

(* the reader takes the frame at the read position of the pipe *)
ReadRawFrame(t) ==
    /\ procs[t].reader = "running"
    /\ server[t].pos < Len(server[t].stdout)
    /\ LET d == decode(server[t].stdout[server[t].pos + 1])
       IN  SetProc(t, IF d.kind = "payload"
                      THEN [procs[t] EXCEPT !.notification_queue = Append(@, d.payload)]
                      ELSE IF d.kind = "raised"
                      THEN [procs[t] EXCEPT !.reader = "failed"]
                      ELSE procs[t])
    /\ SetServer(t, [server[t] EXCEPT !.pos = @ + 1])
    /\ UNCHANGED pvars

(* the payload that was decoded is sent back through _send_payload *)
WriteRawFrame(t) ==
    /\ procs[t].notification_queue # <<>>
    /\ SetProc(t, [procs[t] EXCEPT !.notification_queue = Tail(@)])
    /\ SetServer(t, [server[t] EXCEPT !.stdin = Append(@, encode(Head(procs[t].notification_queue)))])
    /\ UNCHANGED pvars

InitFraming ==
    /\ \E frame \in RawFrames :
          /\ procs = [t \in Transports |->
                        IF t = 1 THEN [NewProc EXCEPT !.exists = TRUE, !.process = "running",
                                                      !.reader = "running"]
                        ELSE NewProc]
          /\ server = [t \in Transports |->
                        IF t = 1 THEN [NewServer EXCEPT !.up = TRUE, !.stdout = <<frame>>]
                        ELSE NewServer]
    /\ sessions = [s \in Sessions |-> NewSession]
    /\ pool = NewPool(0, MaxIdleTime)
    /\ now = 0

NextFraming == ReadRawFrame(1) \/ WriteRawFrame(1)

SpecFraming == InitFraming /\ [][NextFraming]_vars

(* C25: a syntactically valid frame that the reader has decoded and the  *)
(* writer has encoded again comes out as the same bytes, and the reader  *)
(* does decode every valid frame; a byte sequence without a              *)
(* Content-Length header is rejected by the reader.                      *)
C25_FramingRoundTrip ==
    LET frame == server[1].stdout[1]
    IN  server[1].pos = 1 =>
          /\ ValidFrame(frame) =>
                /\ procs[1].notification_queue # <<>> \/ server[1].stdin # <<>>
                /\ server[1].stdin # <<>> => server[1].stdin[1] = frame
          /\ ~HasContentLength(frame) => procs[1].reader = "failed"

(* ---------------- semantic-token normalization ----------------------- *)
MaxTokens == 1
MaxDelta == 1

(* the canonical legend, spec.md 4.7; test_session.py:428-438 pins its   *)
(* indices 0, 2, 8, 12, 22 and 0, 1, 6                                   *)
CanonicalTypes ==
    << "namespace", "type", "class", "enum", "interface", "struct", "typeParameter",
       "parameter", "variable", "property", "enumMember", "event", "function", "method",
       "macro", "keyword", "modifier", "comment", "string", "number", "regexp",
       "operator", "decorator" >>

CanonicalModifiers ==
    << "declaration", "definition", "readonly", "static", "deprecated", "abstract",
       "async", "modification", "documentation", "defaultLibrary" >>

(* legends a backend may advertise: another order, and names the         *)
(* canonical legend does not have                                        *)
BackendLegends ==
    { [tokenTypes |-> <<"class", "function", "variable">>,
       tokenModifiers |-> <<"definition", "declaration">>],
      [tokenTypes |-> <<"function", "selfParameter", "namespace">>,
       tokenModifiers |-> <<"async", "builtin">>] }

(* the 0-based index of a name in a legend; a name the legend does not   *)
(* have maps to index 0                                                  *)
IndexOf(names, name) ==
    IF \E i \in DOMAIN names : names[i] = name
    THEN (CHOOSE i \in DOMAIN names : names[i] = name) - 1
    ELSE 0

TypeIndex_raw(legend, i) == i + 0
TypeIndex(legend, i) ==
    IF i + 1 \in DOMAIN legend.tokenTypes
    THEN IndexOf(CanonicalTypes, legend.tokenTypes[i + 1])
    ELSE 0

HasBit(bits, j) == (bits \div (2 ^ j)) % 2 = 1

RECURSIVE BitsOf(_)
BitsOf(set) ==
    IF set = {} THEN 0
    ELSE LET j == CHOOSE x \in set : TRUE IN (2 ^ j) + BitsOf(set \ {j})

ModifierBits(legend, bits) ==
    BitsOf({ IndexOf(CanonicalModifiers, legend.tokenModifiers[j + 1]) :
                 j \in {x \in 0..(Len(legend.tokenModifiers) - 1) : HasBit(bits, x)} })

(* the packed data array: positions 1-3 of every five are the            *)
(* positional triple, position 4 the token type, position 5 the          *)
(* modifier bitset                                                       *)
Normalize(legend, data) ==
    [i \in DOMAIN data |->
        IF i % 5 = 4 THEN TypeIndex(legend, data[i])
        ELSE IF i % 5 = 0 THEN ModifierBits(legend, data[i])
        ELSE data[i]]

RawToken(legend) ==
    { <<dl, ds, ln, ty, md>> :
          dl \in 0..MaxDelta, ds \in 0..MaxDelta, ln \in 1..MaxDelta,
          ty \in 0..(Len(legend.tokenTypes) - 1),
          md \in 0..((2 ^ Len(legend.tokenModifiers)) - 1) }

RECURSIVE RawData(_, _)
RawData(legend, n) ==
    IF n = 0 THEN {<<>>}
    ELSE RawData(legend, n - 1)
           \cup {d \o tok : d \in {x \in RawData(legend, n - 1) : Len(x) = 5 * (n - 1)},
                            tok \in RawToken(legend)}

(* get_semantic_tokens(normalize): the data the server returned, as it   *)
(* is or remapped to the canonical legend                                *)
get_semantic_tokens(s, normalize) ==
    /\ sessions[s].tokens = <<>>
    /\ sessions[s].raw_tokens # <<>>
    /\ sessions' = [sessions EXCEPT
          ![s].tokens = IF normalize
                        THEN Normalize(sessions[s].backend_legend, sessions[s].raw_tokens)
                        ELSE sessions[s].raw_tokens,
          ![s].normalized = normalize]
    /\ UNCHANGED <<procs, server, pool, now>>

InitTokens ==
    /\ procs = [t \in Transports |-> NewProc]
    /\ server = [t \in Transports |-> NewServer]
    /\ \E legend \in BackendLegends : \E data \in RawData(legend, MaxTokens) :
          sessions = [s \in Sessions |->
                        IF s = 1 THEN [NewSession EXCEPT !.backend_legend = legend,
                                                         !.raw_tokens = data]
                        ELSE NewSession]
    /\ pool = NewPool(0, MaxIdleTime)
    /\ now = 0

NextTokens == get_semantic_tokens(1, TRUE) \/ get_semantic_tokens(1, FALSE)

SpecTokens == InitTokens /\ [][NextTokens]_vars

(* C26: the normalized data array is as long as the raw one; in every    *)
(* five-tuple the positional triple is the raw one, the token type is    *)
(* the canonical index of the name the backend's legend gives the raw    *)
(* type (0 when the canonical legend lacks the name), and the modifier   *)
(* bitset has exactly the canonical bits of the raw modifiers' names.    *)
C26_NormalizeKeepsPositions ==
    \A s \in Sessions :
        LET raw == sessions[s].raw_tokens
            out == sessions[s].tokens
            legend == sessions[s].backend_legend
            Known(names, name) == \E i \in DOMAIN names : names[i] = name
        IN  (sessions[s].normalized /\ out # <<>>) =>
              /\ Len(out) = Len(raw)
              /\ \A i \in DOMAIN raw :
                    /\ i % 5 \in {1, 2, 3} => out[i] = raw[i]
                    /\ i % 5 = 4 =>
                          IF Known(CanonicalTypes, legend.tokenTypes[raw[i] + 1])
                          THEN CanonicalTypes[out[i] + 1] = legend.tokenTypes[raw[i] + 1]
                          ELSE out[i] = 0
                    /\ i % 5 = 0 =>
                          \A k \in 0..(Len(CanonicalModifiers) - 1) :
                              HasBit(out[i], k) <=>
                                 \E j \in 0..(Len(legend.tokenModifiers) - 1) :
                                    /\ HasBit(raw[i], j)
                                    /\ IF Known(CanonicalModifiers, legend.tokenModifiers[j + 1])
                                       THEN CanonicalModifiers[k + 1] = legend.tokenModifiers[j + 1]
                                       ELSE k = 0

C26_Witness ==
    \E s \in Sessions :
        /\ sessions[s].normalized
        /\ Len(sessions[s].tokens) = 5
        /\ sessions[s].tokens[4] # sessions[s].raw_tokens[4]
        /\ sessions[s].tokens[5] # sessions[s].raw_tokens[5]
        /\ sessions[s].raw_tokens[5] # 0

(* ---------------- one session of either kind of backend -------------- *)
InitDisk ==
    /\ procs = [t \in Transports |-> NewProc]
    /\ server = [t \in Transports |-> NewServer]
    /\ \E b \in BOOLEAN :
          sessions = [s \in Sessions |-> [NewSession EXCEPT !.on_disk = b]]
    /\ pool = NewPool(0, MaxIdleTime)
    /\ now = 0

SpecDisk == InitDisk /\ [][NextSession]_vars

(* C27: once create or update_code of a session whose backend requires   *)
(* the file on disk has returned, the file at the document uri holds     *)
(* the session's current document text; a session whose backend does     *)
(* not require it never has that file.                                   *)
C27_FileOnDiskFollowsDocument ==
    \A s \in Sessions :
        /\ (sessions[s].on_disk /\ sessions[s].pc = "live")
              => sessions[s].file = sessions[s].document_version
        /\ ~sessions[s].on_disk => sessions[s].file = NoFile

C27_Witness ==
    \E s \in Sessions :
        /\ sessions[s].on_disk
        /\ sessions[s].pc = "live"
        /\ sessions[s].updates >= 1
        /\ sessions[s].file = sessions[s].document_version
        /\ sessions[s].file > InitialVersion

(* C28: the steps of stop() come in order.  The exit notification is     *)
(* written only after the shutdown request was written and its answer    *)
(* read; stop() starts waiting for the process only after the exit       *)
(* notification was written or a write failed with a connection reset;   *)
(* and the process is killed only by a stop() that was waiting for it    *)
(* and found it still running.                                           *)
OnWire(t, method) ==
    {j \in DOMAIN server[t].stdin : server[t].stdin[j].method = method}

WritesExit(t) ==
    /\ OnWire(t, "exit") = {}
    /\ Len(server'[t].stdin) = Len(server[t].stdin) + 1
    /\ server'[t].stdin[Len(server'[t].stdin)].method = "exit"

StartsWaiting(t) ==
    /\ procs[t].stop # "await_process"
    /\ procs'[t].stop = "await_process"

Kills(t) ==
    /\ server[t].up
    /\ ~server'[t].up
    /\ procs'[t].process = "none"

C28_StopStepsInOrder ==
    [][\A t \in Transports :
          LET k == procs[t].stopCall
          IN  /\ WritesExit(t) =>
                    /\ OnWire(t, "shutdown") # {}
                    /\ k # NoCall
                    /\ procs[t].calls[k].method = "shutdown"
                    /\ procs[t].calls[k].fut = "result"
                    /\ procs[t].calls[k].st = "returned"
                    /\ procs[t].stop = "await_exit"
              /\ StartsWaiting(t) =>
                    \/ procs[t].shutdown
                    \/ /\ procs[t].stop = "await_exit"
                       /\ OnWire(t, "exit") # {} \/ ~server[t].up
                    \/ /\ procs[t].stop = "idle"
                       /\ ~server[t].up
              /\ Kills(t) =>
                    /\ procs[t].stop = "await_process"
                    /\ procs'[t].stop = "done"]_vars

C28_Witness ==
    \E t \in Transports :
        /\ procs[t].stop = "done"
        /\ procs[t].process = "none"
        /\ ~server[t].up
        /\ \E i \in OnWire(t, "shutdown") : \E j \in OnWire(t, "exit") : i < j
        /\ procs[t].calls[procs[t].stopCall].st = "returned"

(* ---------------- inbound traffic of a live transport ---------------- *)
(* The server writes notifications and requests of its own; the client   *)
(* registers waiters without a deadline and a generic consumer iterates  *)
(* notifications().                                                      *)
ServerRequestMethods == {"workspace/configuration"}

(* a server-to-client request: a method and an id the server chose *)
ServerRequest(t, method) ==
    /\ server[t].up
    /\ Notified(t) < MaxNotifications
    /\ SetServer(t, [server[t] EXCEPT
           !.written = @ + 1,
           !.stdout = Append(@, [make_request(method, Notified(t) + 1, NoParams)
                                    EXCEPT !.val = Notified(t) + 1])])
    /\ UNCHANGED <<procs, pvars>>

(* LSPSession.notifications, session.py:131-141: the generic consumer    *)
(* takes the oldest queued message                                       *)
notifications(t) ==
    /\ procs[t].notification_queue # <<>>
    /\ SetProc(t, [procs[t] EXCEPT !.notification_queue = Tail(@)])
    /\ UNCHANGED <<server, pvars>>

NextInbound ==
    \E t \in {1} :
        \/ start(t)
        \/ \E method \in WaiterMethods : on_notification(t, method, 0)
        \/ \E method \in WaiterMethods : ServerNotify(t, method)
        \/ \E method \in ServerRequestMethods : ServerRequest(t, method)
        \/ _read_stdout(t)
        \/ notifications(t)

SpecInbound == Init /\ [][NextInbound]_vars

(* C31: when the reader has read a message that has both a method and    *)
(* an id, a response with that id and a null result is on its way to     *)
(* the server: written, or held by a writer task.                        *)
ReadsServerRequest(t) ==
    /\ server[t].stdout # <<>>
    /\ server'[t].stdout = Tail(server[t].stdout)
    /\ Head(server[t].stdout).method # ""
    /\ Head(server[t].stdout).id # NoId

IsAck(msg, request_id) == msg.method = "" /\ msg.id = request_id /\ msg.body = "result"

C31_ServerRequestAcknowledged ==
    [][\A t \in Transports :
          ReadsServerRequest(t) =>
              \/ \E j \in DOMAIN server'[t].stdin :
                    IsAck(server'[t].stdin[j], Head(server[t].stdout).id)
              \/ \E j \in DOMAIN procs'[t].tasks :
                    IsAck(procs'[t].tasks[j].msg, Head(server[t].stdout).id)]_vars

(* C32: whatever requests and notifications are sent on one transport,   *)
(* and in whatever order their writers run, the server's stdin receives  *)
(* the chunks of each message next to one another: the two header lines  *)
(* and the body of message n, then those of message n + 1.               *)
C32_FramesContiguous ==
    \A t \in Transports :
        /\ Len(server[t].wire) = 3 * Len(server[t].stdin)
        /\ \A n \in DOMAIN server[t].stdin :
              SubSeq(server[t].wire, 3 * n - 2, 3 * n) = Chunks(n)

C32_Witness ==
    \E t \in Transports :
        /\ Len(server[t].wire) >= 9
        /\ \E i, j \in DOMAIN server[t].stdin :
              /\ server[t].stdin[i].method = "textDocument/hover"
              /\ server[t].stdin[j].method = "exit"

(* C33: get_diagnostics looks at no version field.  The payload it       *)
(* returns was read by the reader while that call was waiting, so after  *)
(* the update_code before it had returned, and it is returned as the     *)
(* diagnostics of the document version that was current when it was      *)
(* read; a payload read while no call was waiting is returned by no      *)
(* later call.                                                           *)
ReadsPublish(t) ==
    /\ server[t].stdout # <<>>
    /\ server'[t].stdout = Tail(server[t].stdout)
    /\ Head(server[t].stdout).method = "textDocument/publishDiagnostics"

Completes(t, i) ==
    /\ i \in DOMAIN procs'[t].waiters
    /\ procs'[t].waiters[i].st = "done"
    /\ i \in DOMAIN procs[t].waiters => procs[t].waiters[i].st = "waiting"

Registers(t) == Len(procs'[t].waiters) = Len(procs[t].waiters) + 1

C34_WaitersServedInArrivalOrder ==
    [][\A t \in Transports :
          /\ \A i \in 1..Len(procs'[t].waiters) :
                Completes(t, i) =>
                    /\ i \in DOMAIN procs[t].waiters
                    /\ server[t].stdout # <<>>
                    /\ server'[t].stdout = Tail(server[t].stdout)
                    /\ Head(server[t].stdout).method = procs[t].waiters[i].method
                    /\ procs'[t].waiters[i].val = Head(server[t].stdout).val
                    /\ \A j \in 1..(i - 1) :
                          procs[t].waiters[j].method = procs[t].waiters[i].method
                              => procs[t].waiters[j].st # "waiting"
          /\ Registers(t) =>
                /\ procs'[t].waiters[Len(procs'[t].waiters)].st = "waiting"
                /\ procs'[t].notification_queue = procs[t].notification_queue]_vars

(* a notification was queued, then a waiter of its method registered     *)
(* and was served by the next notification                               *)
C34_Witness ==
    \E i \in DOMAIN procs[1].waiters : \E n \in DOMAIN procs[1].notification_queue :
        /\ procs[1].waiters[i].st = "done"
        /\ procs[1].notification_queue[n].method = procs[1].waiters[i].method
        /\ procs[1].notification_queue[n].val < procs[1].waiters[i].val

(* C35: when a waiter is registered while the generic queue holds a      *)
(* notification of its method that no consumer has taken yet, the waiter *)
(* completes with that notification and the queue no longer holds it.    *)
C35_QueuedNotificationGoesToWaiter ==
    [][\A t \in Transports :
          LET new == procs'[t].waiters[Len(procs'[t].waiters)]
              n == FirstQueued(procs[t].notification_queue, new.method)
          IN  (Registers(t) /\ n # 0) =>
                  /\ new.st = "done"
                  /\ new.val = procs[t].notification_queue[n].val
                  /\ Len(procs'[t].notification_queue) = Len(procs[t].notification_queue) - 1]_vars

(* C36: for any interleaving of concurrent acquire and release calls on   *)
(* one pool, with more acquires suspended at the factory than max_size,   *)
(* current_size never exceeds max_size and the transport an acquire       *)
(* returned to a session is started, not lent to another session and not  *)
(* idle in the pool.                                                      *)
Holders == {s \in Sessions : sessions[s].pc \in {"await_config", "await_open", "live"}}

C37_PendingOnlyInFlight ==
    \A t \in Transports : \A k \in DOMAIN procs[t].calls :
        procs[t].calls[k].st # "awaiting"
        => procs[t].calls[k].id \notin DOMAIN procs[t].pending_requests

(* C38: stop() always terminates: whatever the server does, a stop() that *)
(* was called eventually returns, with the reader cancelled and the       *)
(* subprocess exited or killed.                                           *)
C38_StopAlwaysTerminates ==
    \A t \in Transports :
        (procs[t].stop \notin {"idle", "done"})
        ~> (/\ procs[t].stop = "done"
            /\ procs[t].reader # "running"
            /\ procs[t].process = "none")

ReleasedInStep(t) == t \in ActiveProcs(pool) /\ t \in AvailableProcs(pool')

C40_ShutdownReleasesOnce ==
    [][/\ \A t \in Transports :
             ReleasedInStep(t)
             => /\ t \notin AvailableProcs(pool)
                /\ \E s \in Sessions :
                      /\ sessions[s].process = t
                      /\ sessions[s].pool # "none"
                      /\ sessions'[s].pool = "none"
                      /\ \A r \in Sessions : r # s => sessions'[r] = sessions[r]
       /\ \A s \in Sessions :
             (sessions[s].pool = "none" /\ sessions[s].pc = "closed" /\ sessions'[s] # sessions[s])
             => /\ pool' = pool
                /\ procs' = procs
                /\ server' = server]_vars

(* shutdown() was called again on a session whose transport another       *)
(* session holds by now as an active entry of the pool                    *)
C40_Witness ==
    \E s1, s2 \in Sessions :
        /\ s1 # s2
        /\ sessions[s1].again
        /\ sessions[s2].pc = "live"
        /\ sessions[s2].process = sessions[s1].process
        /\ sessions[s2].process \in ActiveProcs(pool)

====
